---------------------------- MODULE Spec2Model ----------------------------
(***************************************************************************)
(* Seller-financing installment calculator: the NPV solver                 *)
(* (npv-calculator: calculateNPV and its helpers) and the conversation     *)
(* engine (chatbot.ts: generateBotResponse and its slot parsers).          *)
(*                                                                         *)
(* JavaScript numbers are modelled as binary floating-point values with a  *)
(* MantBits-bit mantissa: a finite value is [k |-> "fin", m, e] and stands *)
(* for m * 2^e with 2^(MantBits-1) <= |m| < 2^MantBits (or m = 0, e = 0);  *)
(* division by zero yields the values "inf" and "nan" as in IEEE-754.      *)
(* Utterances are sequences of one-character strings, so that the slot     *)
(* parsers are modelled by what their regular expressions do.              *)
(***************************************************************************)
EXTENDS Integers, Sequences, FiniteSets, TLC

(***************************************************************************)
(* Floating-point numbers                                                  *)
(***************************************************************************)
MantBits == 30
HalfBits == 15

TwoM == 2^MantBits
TwoM1 == 2^(MantBits - 1)
TwoH == 2^HalfBits

Abs(i) == IF i < 0 THEN -i ELSE i
Sgn(i) == IF i < 0 THEN -1 ELSE IF i > 0 THEN 1 ELSE 0

Fin(m, e) == [k |-> "fin", m |-> m, e |-> e]
FZero == Fin(0, 0)
FNaN == [k |-> "nan", m |-> 0, e |-> 0]
FInf(s) == [k |-> "inf", m |-> s, e |-> 0]

IsFin(x) == x.k = "fin"
IsNaN(x) == x.k = "nan"
IsInf(x) == x.k = "inf"

\* Shift a small nonzero mantissa left until it has MantBits bits.
RECURSIVE NormL(_, _)
NormL(m, e) ==
  IF Abs(m) < 2^(MantBits - 16) THEN NormL(m * 2^16, e - 16)
  ELSE IF Abs(m) < 2^(MantBits - 8) THEN NormL(m * 2^8, e - 8)
  ELSE IF Abs(m) < 2^(MantBits - 4) THEN NormL(m * 2^4, e - 4)
  ELSE IF Abs(m) < 2^(MantBits - 2) THEN NormL(m * 4, e - 2)
  ELSE IF Abs(m) < TwoM1 THEN NormL(m * 2, e - 1)
  ELSE Fin(m, e)

\* The float nearest to m * 2^e, for an integer m with |m| < 2^(MantBits+1).
Norm(m, e) ==
  IF m = 0 THEN FZero
  ELSE IF Abs(m) >= TwoM
       THEN LET h == (Abs(m) + 1) \div 2
            IN  IF h >= TwoM THEN Fin(Sgn(m) * (h \div 2), e + 2)
                ELSE Fin(Sgn(m) * h, e + 1)
       ELSE NormL(m, e)

\* Number(i) for an integer i.
FromInt(i) == Norm(i, 0)

FOne == FromInt(1)

FNeg(x) == [x EXCEPT !.m = -x.m]

FSign(x) == IF IsNaN(x) THEN 0 ELSE Sgn(x.m)

ShiftR(m, d) == Sgn(m) * (Abs(m) \div 2^d)

\* a + b on finite operands.
FinAdd(a, b) ==
  IF a.m = 0 THEN b
  ELSE IF b.m = 0 THEN a
  ELSE LET hi == IF a.e >= b.e THEN a ELSE b
           lo == IF a.e >= b.e THEN b ELSE a
           d  == hi.e - lo.e
       IN  IF d > MantBits THEN hi
           ELSE IF d = 1 /\ Sgn(hi.m) # Sgn(lo.m)
                THEN Norm(2 * hi.m + lo.m, lo.e)
           ELSE LET r == IF d = 0 THEN 0
                         ELSE Sgn(lo.m) * ((Abs(lo.m) \div 2^(d - 1)) % 2)
                IN  Norm(hi.m + ShiftR(lo.m, d) + r, hi.e)

\* The JavaScript operator + on numbers.
FAdd(a, b) ==
  IF IsNaN(a) \/ IsNaN(b) THEN FNaN
  ELSE IF IsInf(a) /\ IsInf(b) THEN (IF a.m = b.m THEN a ELSE FNaN)
  ELSE IF IsInf(a) THEN a
  ELSE IF IsInf(b) THEN b
  ELSE FinAdd(a, b)

\* The JavaScript operator - on numbers.
FSub(a, b) == FAdd(a, FNeg(b))

\* a * b on finite nonzero operands: the top MantBits bits of the
\* 2*MantBits-bit product of the mantissas, rounded.
FinMul(a, b) ==
  LET s   == Sgn(a.m) * Sgn(b.m)
      a1  == Abs(a.m) \div TwoH
      a0  == Abs(a.m) % TwoH
      b1  == Abs(b.m) \div TwoH
      b0  == Abs(b.m) % TwoH
      mid == a1 * b0 + a0 * b1
      ml  == (mid % TwoH) * TwoH + a0 * b0
      H   == a1 * b1 + (mid \div TwoH) + (ml \div TwoM)
      L   == ml % TwoM
  IN  IF H >= TwoM1
      THEN Norm(s * (H + (L \div TwoM1)), a.e + b.e + MantBits)
      ELSE Norm(s * (2 * H + (L \div TwoM1) + ((L \div 2^(MantBits - 2)) % 2)),
                a.e + b.e + MantBits - 1)

\* The JavaScript operator * on numbers.
FMul(a, b) ==
  IF IsNaN(a) \/ IsNaN(b) THEN FNaN
  ELSE IF IsInf(a) \/ IsInf(b)
       THEN (IF FSign(a) * FSign(b) = 0 THEN FNaN ELSE FInf(FSign(a) * FSign(b)))
  ELSE IF a.m = 0 \/ b.m = 0 THEN FZero
  ELSE FinMul(a, b)

\* Long division: q and r after n more quotient bits.
RECURSIVE DivBits(_, _, _, _)
DivBits(q, r, B, n) ==
  IF n = 0 THEN <<q, r>>
  ELSE IF 2 * r >= B THEN DivBits(2 * q + 1, 2 * r - B, B, n - 1)
  ELSE DivBits(2 * q, 2 * r, B, n - 1)

\* a / b on finite nonzero operands.
FinDiv(a, b) ==
  LET s  == Sgn(a.m) * Sgn(b.m)
      A  == Abs(a.m)
      B  == Abs(b.m)
      d  == DivBits(A \div B, A % B, B, MantBits - 1)
      d2 == IF d[1] >= TwoM1 THEN d ELSE DivBits(d[1], d[2], B, 1)
      sh == IF d[1] >= TwoM1 THEN MantBits - 1 ELSE MantBits
      rb == IF 2 * d2[2] >= B THEN 1 ELSE 0
  IN  Norm(s * (d2[1] + rb), a.e - b.e - sh)

\* The JavaScript operator / on numbers: x/0 is an infinity, 0/0 is NaN.
FDiv(a, b) ==
  IF IsNaN(a) \/ IsNaN(b) THEN FNaN
  ELSE IF IsInf(a) THEN (IF IsInf(b) THEN FNaN
                         ELSE FInf(a.m * (IF b.m < 0 THEN -1 ELSE 1)))
  ELSE IF IsInf(b) THEN FZero
  ELSE IF b.m = 0 THEN (IF a.m = 0 THEN FNaN ELSE FInf(Sgn(a.m)))
  ELSE IF a.m = 0 THEN FZero
  ELSE FinDiv(a, b)

\* The JavaScript comparison a < b (false when either side is NaN).
FLt(a, b) ==
  IF IsNaN(a) \/ IsNaN(b) THEN FALSE
  ELSE IF IsInf(a) THEN a.m < 0 /\ ~(IsInf(b) /\ b.m < 0)
  ELSE IF IsInf(b) THEN b.m > 0
  ELSE IF Sgn(a.m) # Sgn(b.m) THEN Sgn(a.m) < Sgn(b.m)
  ELSE IF a.m = 0 THEN FALSE
  ELSE IF a.e # b.e THEN (IF a.m > 0 THEN a.e < b.e ELSE a.e > b.e)
  ELSE a.m < b.m

FGt(a, b) == FLt(b, a)
FLe(a, b) == ~IsNaN(a) /\ ~IsNaN(b) /\ ~FLt(b, a)
FGe(a, b) == FLe(b, a)

\* Math.pow(x, k) for an integer k.
RECURSIVE PowNat(_, _)
PowNat(x, k) ==
  IF k = 0 THEN FOne
  ELSE IF k % 2 = 0 THEN PowNat(FMul(x, x), k \div 2)
  ELSE FMul(x, PowNat(x, k - 1))

FPow(x, k) == IF k >= 0 THEN PowNat(x, k) ELSE FDiv(FOne, PowNat(x, -k))


FAbs(x) == IF IsFin(x) /\ x.m < 0 THEN FNeg(x) ELSE IF IsInf(x) THEN FInf(1) ELSE x

\* A decimal literal num/den, as the number the source text denotes.
Dec(num, den) == FDiv(FromInt(num), FromInt(den))

(***************************************************************************)
(* npv-calculator: dates                                                   *)
(***************************************************************************)
\* An absent optional field (targetPv?, targetNominal?, ...).
Undefined == [k |-> "undef", m |-> 0, e |-> 0]

\* Mutation of NewDate: the month index wraps but the year is not carried.
NewDate_NoCarry(year, monthIndex) ==
  [year |-> year, month |-> monthIndex % 12]

\* new Date(year, monthIndex, 1): a month index outside 0..11 carries
\* into the year.
NewDate(year, monthIndex) ==
  [year |-> year + (monthIndex \div 12), month |-> monthIndex % 12]

\* date.setMonth(monthIndex) on a date whose day is 1.
SetMonth(date, monthIndex) == NewDate(date.year, monthIndex)

\* `${date.getFullYear()}-${String(date.getMonth() + 1).padStart(2, '0')}`
DateStr(date) == [y |-> date.year, mo |-> date.month + 1]

\* entry.date.split('-').map(Number), then new Date(year, month - 1, 1)
ParseDateStr(str) == NewDate(str.y, str.mo - 1)

(***************************************************************************)
(* npv-calculator: discounting primitives                                  *)
(***************************************************************************)
monthsBetween(startYear, startMonth, endYear, endMonth) ==
  (endYear - startYear) * 12 + (endMonth - startMonth)

presentValue(amount, monthsAhead, r) ==
  FDiv(amount, FPow(FAdd(FOne, r), monthsAhead))

\* A number is one of the three kinds of value; testing it makes TLC
\* evaluate a partial result before the next loop iteration.
IsNumber(x) == x.k \in {"fin", "inf", "nan"}

\* The loop of geometricSumDiscount from iteration i on; skipIndex is <<>>
\* when the optional argument is absent and <<k>> otherwise.
RECURSIVE GeoLoop(_, _, _, _, _, _)
GeoLoop(i, n, r, startMonth, skipIndex, sum) ==
  IF ~(i < n) \/ ~IsNumber(sum) THEN sum
  ELSE LET k == startMonth + i
       IN  IF skipIndex # <<>> /\ k = skipIndex[1]
           THEN GeoLoop(i + 1, n, r, startMonth, skipIndex, sum)
           ELSE GeoLoop(i + 1, n, r, startMonth, skipIndex,
                        FAdd(sum, FDiv(FOne, FPow(FAdd(FOne, r), k))))

\* Mutation of geometricSumDiscount: the first term is discounted by
\* startMonth - 1 months instead of startMonth.
geometricSumDiscount_FromZero(n, r, startMonth, skipIndex) ==
  GeoLoop(0, n, r, startMonth - 1, skipIndex, FZero)

geometricSumDiscount(n, r, startMonth, skipIndex) ==
  GeoLoop(0, n, r, startMonth, skipIndex, FZero)

(***************************************************************************)
(* npv-calculator: schedule builders                                       *)
(***************************************************************************)
Entry(date, T) == [date |-> DateStr(date), amount |-> T, type |-> "installment"]

scheduleConcurrent(inp, T) ==
  LET startDate == NewDate(inp.startYear, inp.startMonth - 1)
  IN  [k \in 1..inp.nInstallments |->
         Entry(SetMonth(startDate, startDate.month + k), T)]

\* The while loop of scheduleSkip (paid is the length of schedule).
RECURSIVE SkipLoop(_, _, _, _, _, _)
SkipLoop(inp, T, t, paid, k, schedule) ==
  IF ~(paid < inp.nInstallments) \/ Len(schedule) # paid THEN schedule
  ELSE LET startDate == NewDate(inp.startYear, inp.startMonth - 1)
           dateK == SetMonth(startDate, startDate.month + k)
       IN  IF k = t
           THEN SkipLoop(inp, T, t, paid, k + 1, schedule)
           ELSE SkipLoop(inp, T, t, paid + 1, k + 1,
                         Append(schedule, Entry(dateK, T)))

\* Mutation of scheduleSkip: the down-payment month is never skipped.
scheduleSkip_NoSkip(inp, T) ==
  LET t == monthsBetween(inp.startYear, inp.startMonth, inp.downYear, inp.downMonth)
  IN  SkipLoop(inp, T, 0, 0, 1, <<>>)

\* Mutation of scheduleSkip: the month after the down payment's is skipped.
scheduleSkip_SkipNext(inp, T) ==
  LET t == monthsBetween(inp.startYear, inp.startMonth, inp.downYear, inp.downMonth)
  IN  SkipLoop(inp, T, t + 1, 0, 1, <<>>)

scheduleSkip(inp, T) ==
  LET t == monthsBetween(inp.startYear, inp.startMonth, inp.downYear, inp.downMonth)
  IN  SkipLoop(inp, T, t, 0, 1, <<>>)

\* The for loop of pvOfSchedule from entry i on.
RECURSIVE PvLoop(_, _, _, _)
PvLoop(schedule, inp, i, pv) ==
  IF i > Len(schedule) \/ ~IsNumber(pv) THEN pv
  ELSE LET start == NewDate(inp.startYear, inp.startMonth - 1)
           dt == ParseDateStr(schedule[i].date)
           months == (dt.year - start.year) * 12 + (dt.month - start.month)
       IN  PvLoop(schedule, inp, i + 1,
                  FAdd(pv, presentValue(schedule[i].amount, months, inp.monthlyRate)))

pvOfSchedule(schedule, inp) == PvLoop(schedule, inp, 1, FZero)

(***************************************************************************)
(* npv-calculator: calculateNPV                                            *)
(***************************************************************************)
\* const skipIdx = (1 <= t && t <= n + 1) ? t : undefined
SkipIdx(t, n) == IF 1 <= t /\ t <= n + 1 THEN <<t>> ELSE <<>>

\* Mutation of NominalTotal: the n+1 months of the skip span are counted.
NominalTotal_SpanCount(inp, T) ==
  FAdd(inp.downAmount, FMul(T, FromInt(inp.nInstallments + 1)))

\* inputs.downAmount + T * inputs.nInstallments
NominalTotal(inp, T) ==
  FAdd(inp.downAmount, FMul(T, FromInt(inp.nInstallments)))

\* (inputs.targetNominal - inputs.downAmount) / inputs.nInstallments
TCommon(inp) ==
  FDiv(FSub(inp.targetNominal, inp.downAmount), FromInt(inp.nInstallments))

\* { monthlyInstallment: T, nominalTotal, presentValue: pvDown +
\*   pvOfSchedule(sched, inputs), schedule: sched }
ModelResult(inputs, T, nominalTotal, sched, pvDown) ==
  [monthlyInstallment |-> T, nominalTotal |-> nominalTotal,
   presentValue |-> FAdd(pvDown, pvOfSchedule(sched, inputs)), schedule |-> sched]

\* modelA and modelB of MODE 1 for the installments tCon and tSkip.
ModelCon(inputs, tCon, pvDown) ==
  ModelResult(inputs, tCon, NominalTotal(inputs, tCon),
              scheduleConcurrent(inputs, tCon), pvDown)

ModelSkip(inputs, tSkip, pvDown) ==
  ModelResult(inputs, tSkip, NominalTotal(inputs, tSkip),
              scheduleSkip(inputs, tSkip), pvDown)

\* modelA and modelB of MODE 2 for the common installment.
CommonCon(inputs, tCommon, pvDown) ==
  ModelResult(inputs, tCommon, inputs.targetNominal,
              scheduleConcurrent(inputs, tCommon), pvDown)

CommonSkip(inputs, tCommon, pvDown) ==
  ModelResult(inputs, tCommon, inputs.targetNominal,
              scheduleSkip(inputs, tCommon), pvDown)

\* return { modelA, modelB, downPaymentPV: pvDown, downPaymentDate: downDate }
NPVResult(inputs, modelA, modelB, pvDown) ==
  [threw |-> FALSE, modelA |-> modelA, modelB |-> modelB,
   downPaymentPV |-> pvDown,
   downPaymentDate |-> [y |-> inputs.downYear, mo |-> inputs.downMonth]]

\* MODE 1: the two installments solved from remainingPv = targetPv - pvDown.
TargetPvMode(inputs, t, pvDown, remainingPv) ==
  NPVResult(inputs,
            ModelCon(inputs,
                     FDiv(remainingPv,
                          geometricSumDiscount(inputs.nInstallments,
                                               inputs.monthlyRate, 1, <<>>)),
                     pvDown),
            ModelSkip(inputs,
                      FDiv(remainingPv,
                           geometricSumDiscount(inputs.nInstallments + 1,
                                                inputs.monthlyRate, 1,
                                                SkipIdx(t, inputs.nInstallments))),
                      pvDown),
            pvDown)

\* MODE 2: the common installment in both schedules.
TargetNominalMode(inputs, pvDown, tCommon) ==
  NPVResult(inputs, CommonCon(inputs, tCommon, pvDown),
            CommonSkip(inputs, tCommon, pvDown), pvDown)

\* The body of calculateNPV once t and pvDown are computed.
SolveModes(inputs, t, pvDown) ==
  IF inputs.targetPv # Undefined
  THEN TargetPvMode(inputs, t, pvDown, FSub(inputs.targetPv, pvDown))
  ELSE IF inputs.targetNominal # Undefined
  THEN TargetNominalMode(inputs, pvDown, TCommon(inputs))
  ELSE [threw |-> TRUE]

\* pvDown = presentValue(inputs.downAmount, t, inputs.monthlyRate)
DiscountDown(inputs, t) ==
  SolveModes(inputs, t, presentValue(inputs.downAmount, t, inputs.monthlyRate))

\* The value calculateNPV returns, or [threw |-> TRUE] when it throws.
calculateNPV(inputs) ==
  DiscountDown(inputs, monthsBetween(inputs.startYear, inputs.startMonth,
                                     inputs.downYear, inputs.downMonth))

(***************************************************************************)
(* npv-calculator: annualToMonthlyRate                                     *)
(***************************************************************************)
\* Newton's iteration for the 12th root of a >= 1, started above the root
\* and decreasing until the iterate stops decreasing.
RECURSIVE Root12Loop(_, _)
Root12Loop(a, x) ==
  LET x11 == FPow(x, 11)
      next == FSub(x, FDiv(FSub(FMul(x11, x), a), FMul(FromInt(12), x11)))
  IN  IF ~IsFin(next) \/ FGe(next, x) THEN x ELSE Root12Loop(a, next)

\* Math.pow(a, 1 / 12)
Root12(a) ==
  IF ~IsFin(a) \/ FLt(a, FOne) THEN FNaN
  ELSE Root12Loop(a, FAdd(FOne, FDiv(FSub(a, FOne), FromInt(12))))

annualToMonthlyRate(annualRate) == FSub(Root12(FAdd(FOne, annualRate)), FOne)

(***************************************************************************)
(* Text: a string is the sequence of its characters.  The Turkish letters  *)
(* outside ASCII are written i_dotless, s_cedilla, g_breve, u_diaeresis,   *)
(* o_diaeresis and c_cedilla.                                              *)
(***************************************************************************)
Null == <<>>

DigitChars == <<"0", "1", "2", "3", "4", "5", "6", "7", "8", "9">>
UpperChars == <<"A", "B", "C", "D", "E", "F", "G", "H", "I", "J", "K", "L", "M", "N", "O", "P", "Q", "R", "S", "T", "U", "V", "W", "X", "Y", "Z">>
LowerChars == <<"a", "b", "c", "d", "e", "f", "g", "h", "i", "j", "k", "l", "m", "n", "o", "p", "q", "r", "s", "t", "u", "v", "w", "x", "y", "z">>

Range(seq) == {seq[i] : i \in 1..Len(seq)}
IndexOf(seq, c) == CHOOSE i \in 1..Len(seq) : seq[i] = c
SetMin(S) == CHOOSE x \in S : \A y \in S : x <= y

Digits == Range(DigitChars)
UpperLetters == Range(UpperChars)
LowerLetters == Range(LowerChars)
Letters == UpperLetters \cup LowerLetters
LowerOf == [c \in UpperLetters |-> LowerChars[IndexOf(UpperChars, c)]]
UpperOf == [c \in LowerLetters |-> UpperChars[IndexOf(LowerChars, c)]]

\* \d, [A-Z] under the i flag, [A-Z0-9] under the i flag, [\d.,], \s
IsDigit(c) == c \in Digits
IsLetter(c) == c \in Letters
IsAlnum(c) == IsLetter(c) \/ IsDigit(c)
IsNumberChar(c) == IsDigit(c) \/ c \in {".", ","}
IsSpace(c) == c = " "

LowerChar(c) == IF c \in UpperLetters THEN LowerOf[c] ELSE c
UpperChar(c) == IF c \in LowerLetters THEN UpperOf[c] ELSE c

\* The characters of s from position i on, each mapped by toLowerCase.
RECURSIVE LowerFrom(_, _)
LowerFrom(s, i) ==
  IF i > Len(s) THEN <<>> ELSE <<LowerChar(s[i])>> \o LowerFrom(s, i + 1)

RECURSIVE UpperFrom(_, _)
UpperFrom(s, i) ==
  IF i > Len(s) THEN <<>> ELSE <<UpperChar(s[i])>> \o UpperFrom(s, i + 1)

toLowerCase(s) == LowerFrom(s, 1)
toUpperCase(s) == UpperFrom(s, 1)

\* The first position from i on, and the last position up to j, that
\* holds no white space (Len(s) + 1 and 0 when there is none).
RECURSIVE FirstNonSpace(_, _)
FirstNonSpace(s, i) ==
  IF i <= Len(s) /\ IsSpace(s[i]) THEN FirstNonSpace(s, i + 1) ELSE i

RECURSIVE LastNonSpace(_, _)
LastNonSpace(s, j) ==
  IF j >= 1 /\ IsSpace(s[j]) THEN LastNonSpace(s, j - 1) ELSE j

trim(s) == SubSeq(s, FirstNonSpace(s, 1), LastNonSpace(s, Len(s)))

\* s.includes(t)
includes(s, t) ==
  \E i \in 1..(Len(s) - Len(t) + 1) :
    t # <<>> => (s[i] = t[1] /\ SubSeq(s, i, i + Len(t) - 1) = t)

\* s.replace(a, b) for single characters: the first occurrence only.
replaceFirst(s, a, b) ==
  LET I == {i \in 1..Len(s) : s[i] = a}
  IN  IF I = {} THEN s ELSE [s EXCEPT ![SetMin(I)] = b]

\* The last index of the longest run of characters of one class that
\* starts at i (s[i] is in the class): what a greedy \d+ or [\d.,]* takes.
RECURSIVE DigitRunEnd(_, _)
DigitRunEnd(s, i) ==
  IF i < Len(s) /\ IsDigit(s[i + 1]) THEN DigitRunEnd(s, i + 1) ELSE i

RECURSIVE NumberRunEnd(_, _)
NumberRunEnd(s, i) ==
  IF i < Len(s) /\ IsNumberChar(s[i + 1]) THEN NumberRunEnd(s, i + 1) ELSE i

RECURSIVE LetterRunEnd(_, _)
LetterRunEnd(s, i) ==
  IF i < Len(s) /\ IsLetter(s[i + 1]) THEN LetterRunEnd(s, i + 1) ELSE i

RECURSIVE AlnumRunEnd(_, _)
AlnumRunEnd(s, i) ==
  IF i < Len(s) /\ IsAlnum(s[i + 1]) THEN AlnumRunEnd(s, i + 1) ELSE i

\* The index of the first character after position j that is not white
\* space, or 0.
IndexAfterSpaces(s, j) ==
  IF FirstNonSpace(s, j + 1) > Len(s) THEN 0 ELSE FirstNonSpace(s, j + 1)

\* The first character after position j that is not white space, or "".
NextAfterSpaces(s, j) ==
  IF IndexAfterSpaces(s, j) = 0 THEN "" ELSE s[IndexAfterSpaces(s, j)]

\* parseInt of a string of digits.
RECURSIVE parseInt(_)
parseInt(s) ==
  IF s = <<>> THEN 0
  ELSE parseInt(SubSeq(s, 1, Len(s) - 1)) * 10 + (IndexOf(DigitChars, s[Len(s)]) - 1)

RECURSIVE Pow10(_)
Pow10(k) == IF k = 0 THEN 1 ELSE 10 * Pow10(k - 1)

\* parseFloat of an unsigned decimal: leading white space, digits, an
\* optional point and digits; what follows is ignored; NaN without a digit.
parseFloat(str) ==
  LET s == SubSeq(str, FirstNonSpace(str, 1), Len(str))
      intPart == IF s # <<>> /\ IsDigit(s[1])
                 THEN SubSeq(s, 1, DigitRunEnd(s, 1)) ELSE <<>>
      p == Len(intPart) + 1
      fracPart == IF p < Len(s) /\ s[p] = "." /\ IsDigit(s[p + 1])
                  THEN SubSeq(s, p + 1, DigitRunEnd(s, p + 1)) ELSE <<>>
  IN  IF intPart = <<>> /\ fracPart = <<>> THEN FNaN
      ELSE FDiv(FromInt(parseInt(intPart \o fracPart)), FromInt(Pow10(Len(fracPart))))

\* /^[A-Z]+-[A-Z0-9]+-\d+$/i.test(s)
IsEvId(s) ==
  \E i, j \in 1..Len(s) :
    /\ 1 < i /\ i + 1 < j /\ j < Len(s)
    /\ s[i] = "-" /\ s[j] = "-"
    /\ \A k \in 1..(i - 1) : IsLetter(s[k])
    /\ \A k \in (i + 1)..(j - 1) : IsAlnum(s[k])
    /\ \A k \in (j + 1)..Len(s) : IsDigit(s[k])

\* The end of the match of /[A-Z]+-[A-Z0-9]+-\d+/i that starts at a, or 0.
EvIdMatchEnd(s, a) ==
  IF ~IsLetter(s[a]) THEN 0
  ELSE LET i == LetterRunEnd(s, a) + 1
       IN  IF ~(i < Len(s) /\ s[i] = "-" /\ IsAlnum(s[i + 1])) THEN 0
           ELSE LET j == AlnumRunEnd(s, i + 1) + 1
                IN  IF ~(j < Len(s) /\ s[j] = "-" /\ IsDigit(s[j + 1])) THEN 0
                    ELSE DigitRunEnd(s, j + 1)

\* input.match(/(\d+[\d.,]*)/): the first digit and the run of digits,
\* points and commas that starts there.
NumberMatch(input) ==
  LET D == {i \in 1..Len(input) : IsDigit(input[i])}
  IN  IF D = {} THEN Null
      ELSE <<SubSeq(input, SetMin(D), NumberRunEnd(input, SetMin(D)))>>

\* The number group of /(%?\s*)(\d+[\d.,]*)\s*%/i: the first run that is
\* followed, after optional white space, by a percent sign.
PercentMatch(input) ==
  LET D == {i \in 1..Len(input) :
              IsDigit(input[i]) /\ NextAfterSpaces(input, NumberRunEnd(input, i)) = "%"}
  IN  IF D = {} THEN Null
      ELSE <<SubSeq(input, SetMin(D), NumberRunEnd(input, SetMin(D)))>>

\* The digits group of /(\d+)\s*ay/i.
AyMatch(input) ==
  LET D == {i \in 1..Len(input) :
              /\ IsDigit(input[i])
              /\ LET k == IndexAfterSpaces(input, DigitRunEnd(input, i))
                 IN  /\ k # 0 /\ k < Len(input)
                     /\ input[k] \in {"a", "A"} /\ input[k + 1] \in {"y", "Y"}}
  IN  IF D = {} THEN Null
      ELSE <<SubSeq(input, SetMin(D), DigitRunEnd(input, SetMin(D)))>>

\* The digits group of /^(\d+)\.?$/.
ListNumberMatch(input) ==
  LET body == IF input # <<>> /\ input[Len(input)] = "."
              THEN SubSeq(input, 1, Len(input) - 1) ELSE input
  IN  IF body # <<>> /\ \A k \in 1..Len(body) : IsDigit(body[k]) THEN <<body>> ELSE Null

(***************************************************************************)
(* chatbot: parsers                                                        *)
(***************************************************************************)
getCurrentDate(clock) == [year |-> clock.year, month |-> clock.month]

parseYear(input) ==
  LET trimmed == trim(input)
      I == {i \in 1..(Len(trimmed) - 3) : \A k \in i..(i + 3) : IsDigit(trimmed[k])}
  IN  IF I = {} THEN Null
      ELSE LET year == parseInt(SubSeq(trimmed, SetMin(I), SetMin(I) + 3))
           IN  IF year > 2000 /\ year < 2100 THEN <<year>> ELSE Null

monthNames ==
  << <<"o", "c", "a", "k">>, <<"s_cedilla", "u", "b", "a", "t">>, <<"m", "a", "r", "t">>, <<"n", "i", "s", "a", "n">>, <<"m", "a", "y", "i_dotless", "s">>, <<"h", "a", "z", "i", "r", "a", "n">>,
     <<"t", "e", "m", "m", "u", "z">>, <<"a", "g_breve", "u", "s", "t", "o", "s">>, <<"e", "y", "l", "u_diaeresis", "l">>, <<"e", "k", "i", "m">>, <<"k", "a", "s", "i_dotless", "m">>, <<"a", "r", "a", "l", "i_dotless", "k">> >>

parseMonth(input) ==
  LET trimmed == toLowerCase(trim(input))
      D == {i \in 1..Len(trimmed) : IsDigit(trimmed[i])}
      numMatch == IF D = {} THEN <<>>
                  ELSE LET i == SetMin(D)
                       IN  IF i < Len(trimmed) /\ IsDigit(trimmed[i + 1])
                           THEN SubSeq(trimmed, i, i + 1) ELSE SubSeq(trimmed, i, i)
      month == parseInt(numMatch)
      N == {m \in 1..12 : includes(trimmed, monthNames[m])}
  IN  IF numMatch # <<>> /\ month >= 1 /\ month <= 12 THEN <<month>>
      ELSE IF N # {} THEN <<SetMin(N)>>
      ELSE Null

parseAmount(input) ==
  LET trimmed == trim(input)
      numbersOnly == SelectSeq(trimmed, IsDigit)
  IN  IF IsEvId(trimmed) THEN Null
      ELSE IF Len(numbersOnly) = 0 THEN Null
      ELSE LET amount == parseFloat(numbersOnly)
           IN  IF IsFin(amount) /\ FGt(amount, FZero) THEN <<amount>> ELSE Null

parseInstallments(input) ==
  LET D == {i \in 1..Len(input) : IsDigit(input[i])}
  IN  IF D = {} THEN Null
      ELSE LET count == parseInt(SubSeq(input, SetMin(D), DigitRunEnd(input, SetMin(D))))
           IN  IF count > 0 THEN <<count>> ELSE Null

IsNotComma(c) == c # ","

parseInterestRate(input) ==
  LET lower == toLowerCase(input)
      isAnnual == \/ includes(lower, <<"y", "i_dotless", "l", "l", "i_dotless", "k">>) \/ includes(lower, <<"y", "i", "l", "l", "i", "k">>)
                  \/ includes(lower, <<"a", "n", "n", "u", "a", "l">>)
                  \/ includes(lower, <<"y", "i_dotless", "l">>) \/ includes(lower, <<"y", "i", "l">>)
      percentMatch == PercentMatch(input)
      numMatch == NumberMatch(input)
      Rate(rate, annual) ==
        IF FGt(rate, FZero) THEN <<[rate |-> rate, isAnnual |-> annual]>> ELSE Null
  IN  IF isAnnual /\ percentMatch # Null
      THEN Rate(parseFloat(SelectSeq(percentMatch[1], IsNotComma)), TRUE)
      ELSE IF isAnnual /\ numMatch # Null
      THEN Rate(parseFloat(replaceFirst(numMatch[1], ",", ".")), TRUE)
      ELSE IF percentMatch # Null
      THEN Rate(FDiv(parseFloat(replaceFirst(percentMatch[1], ",", ".")), FromInt(100)), FALSE)
      ELSE IF numMatch # Null
      THEN Rate(parseFloat(replaceFirst(numMatch[1], ",", ".")), FALSE)
      ELSE Null

parseApartmentId(input) ==
  LET A == {a \in 1..Len(input) : EvIdMatchEnd(input, a) # 0}
  IN  IF A = {} THEN Null
      ELSE <<toUpperCase(SubSeq(input, SetMin(A), EvIdMatchEnd(input, SetMin(A))))>>

parseDeliveryTime(teslimSuresi) ==
  LET match == AyMatch(teslimSuresi)
  IN  IF match # Null THEN parseInt(match[1]) ELSE 0

(***************************************************************************)
(* types: ConversationState.  An optional field is <<>> when absent and    *)
(* <<v>> when it holds v.                                                  *)
(***************************************************************************)
Absent == <<>>
Val(field) == field[1]

\* JavaScript truthiness of an optional integer and of an optional number.
TruthyInt(field) == field # Absent /\ Val(field) # 0
TruthyNum(field) == field # Absent /\ ~IsNaN(Val(field)) /\ Val(field) # FZero

\* field || fallback
IntOr(field, fallback) == IF TruthyInt(field) THEN Val(field) ELSE fallback
NumOr(field, fallback) == IF TruthyNum(field) THEN Val(field) ELSE fallback

EmptyState ==
  [step |-> Absent, apartmentId |-> Absent, downAmount |-> Absent,
   monthlyRate |-> Absent, nInstallments |-> Absent,
   startYear |-> Absent, startMonth |-> Absent,
   downYear |-> Absent, downMonth |-> Absent,
   isAnnualRateSelected |-> Absent, desiredInstallment |-> Absent,
   calculatedPv |-> Absent, lastNpvResult |-> Absent,
   alternativeApartments |-> Absent, suggestedDownAmount |-> Absent]

\* { message, npvResult?, newState? }
Reply(message, npvResult, newState) ==
  [message |-> message, npvResult |-> npvResult, newState |-> newState]

\* apartments.find(apt => apt.ev_id === evId)
find(apartments, evId) ==
  LET I == {i \in 1..Len(apartments) : evId # Absent /\ apartments[i].ev_id = Val(evId)}
  IN  IF I = {} THEN Absent ELSE <<apartments[SetMin(I)]>>

Price(apartment) == FromInt(apartment.bugunku_pesin_fiyat)

\* newState.monthlyRate > 1 ? newState.monthlyRate / 100 : newState.monthlyRate
RateDecimal(monthlyRate) ==
  IF FGt(monthlyRate, FOne) THEN FDiv(monthlyRate, FromInt(100)) ELSE monthlyRate

\* (state.monthlyRate || 2) > 1 ? (state.monthlyRate || 2) / 100
\*                              : (state.monthlyRate || 0.02)
RateDecimalOrDefault(monthlyRate) ==
  IF FGt(NumOr(monthlyRate, FromInt(2)), FOne)
  THEN FDiv(NumOr(monthlyRate, FromInt(2)), FromInt(100))
  ELSE NumOr(monthlyRate, Dec(2, 100))

\* calculateNPV({ targetPv, monthlyRate, downAmount, downYear, downMonth,
\*   nInstallments, startYear: state.startYear || currentDate.year,
\*   startMonth: state.startMonth || currentDate.month })
SolveTargetPvFor(targetPv, monthlyRate, downAmount, downYear, downMonth, nInstallments, state, currentDate) ==
  calculateNPV([targetPv |-> targetPv, targetNominal |-> Undefined,
                monthlyRate |-> monthlyRate, downAmount |-> downAmount,
                downYear |-> downYear, downMonth |-> downMonth,
                nInstallments |-> nInstallments,
                startYear |-> IntOr(state.startYear, currentDate.year),
                startMonth |-> IntOr(state.startMonth, currentDate.month)])

SolveTargetNominalFor(targetNominal, monthlyRate, downAmount, downYear, downMonth, nInstallments, state, currentDate) ==
  calculateNPV([targetPv |-> Undefined, targetNominal |-> targetNominal,
                monthlyRate |-> monthlyRate, downAmount |-> downAmount,
                downYear |-> downYear, downMonth |-> downMonth,
                nInstallments |-> nInstallments,
                startYear |-> IntOr(state.startYear, currentDate.year),
                startMonth |-> IntOr(state.startMonth, currentDate.month)])

(***************************************************************************)
(* chatbot: findAlternativeApartments                                      *)
(***************************************************************************)
Tolerance == FromInt(5000)

\* The comparator of matching.sort: negative when a sorts before b.
CompareCandidates(a, b, desiredInstallment) ==
  LET diffA == FAbs(FSub(a.calculatedInstallment, desiredInstallment))
      diffB == FAbs(FSub(b.calculatedInstallment, desiredInstallment))
  IN  IF FLt(FAbs(FSub(diffA, diffB)), FromInt(1000))
      THEN b.deliveryMonths - a.deliveryMonths
      ELSE FSign(FSub(diffA, diffB))

\* Insertion of item into a sorted list, after the entries it does not
\* sort before.
InsertCandidate(sorted, item, desiredInstallment) ==
  LET P == {p \in 1..Len(sorted) :
              CompareCandidates(item, sorted[p], desiredInstallment) < 0}
      at == IF P = {} THEN Len(sorted) + 1 ELSE SetMin(P)
  IN  SubSeq(sorted, 1, at - 1) \o <<item>> \o SubSeq(sorted, at, Len(sorted))

RECURSIVE SortCandidates(_, _, _)
SortCandidates(matching, i, desiredInstallment) ==
  IF i = 0 THEN <<>>
  ELSE InsertCandidate(SortCandidates(matching, i - 1, desiredInstallment),
                       matching[i], desiredInstallment)

TopApartments_All(sorted) == [i \in 1..Len(sorted) |-> sorted[i].apartment]

\* matching.slice(0, 5).map(item => item.apartment)
TopApartments(sorted) ==
  [i \in 1..(IF Len(sorted) < 5 THEN Len(sorted) ELSE 5) |-> sorted[i].apartment]

\* matching.sort(...)
SortMatching(matching, desiredInstallment) ==
  SortCandidates(matching, Len(matching), desiredInstallment)

\* The entry findAlternativeApartments computes for one apartment.
Candidate(apt, npvResult) ==
  [apartment |-> apt,
   calculatedInstallment |-> npvResult.modelA.monthlyInstallment,
   deliveryMonths |-> parseDeliveryTime(apt.teslim_suresi),
   pv |-> Price(apt)]

\* The body of filtered.map: the plan of one apartment at its own price.
MatcherCandidate(apt, downAmount, nInstallments, monthlyRate, downYear, downMonth, startYear, startMonth) ==
  Candidate(apt,
            calculateNPV([targetPv |-> Price(apt), targetNominal |-> Undefined,
                          monthlyRate |->
                            IF FGt(monthlyRate, FOne)
                            THEN FDiv(monthlyRate, FromInt(100)) ELSE monthlyRate,
                          downAmount |-> downAmount,
                          downYear |-> downYear, downMonth |-> downMonth,
                          nInstallments |-> nInstallments,
                          startYear |-> startYear, startMonth |-> startMonth]))

\* The test of candidates.filter.
WithinTolerance(item, desiredInstallment, installmentTolerance) ==
  /\ FGe(item.calculatedInstallment, FSub(desiredInstallment, installmentTolerance))
  /\ FLe(item.calculatedInstallment, FAdd(desiredInstallment, installmentTolerance))
  /\ FGt(item.calculatedInstallment, FZero)

\* matching, before it is sorted.
MatchingCandidates(apartments, desiredInstallment, downAmount, nInstallments, monthlyRate, downYear, downMonth, startYear, startMonth, currentApartmentId, installmentTolerance) ==
  LET IsOther(apt) == apt.ev_id # currentApartmentId
      CandidateOf(apt) ==
        MatcherCandidate(apt, downAmount, nInstallments, monthlyRate,
                         downYear, downMonth, startYear, startMonth)
      Matches(item) == WithinTolerance(item, desiredInstallment, installmentTolerance)
  IN  SelectSeq([i \in 1..Len(SelectSeq(apartments, IsOther)) |->
                   CandidateOf(SelectSeq(apartments, IsOther)[i])],
                Matches)

findAlternativeApartments(apartments, desiredInstallment, downAmount, nInstallments, monthlyRate, downYear, downMonth, startYear, startMonth, currentApartmentId, installmentTolerance) ==
  IF find(apartments, <<currentApartmentId>>) = Absent THEN <<>>
  ELSE TopApartments(
         SortMatching(
           MatchingCandidates(apartments, desiredInstallment, downAmount, nInstallments,
                              monthlyRate, downYear, downMonth, startYear, startMonth,
                              currentApartmentId, installmentTolerance),
           desiredInstallment))

(***************************************************************************)
(* chatbot: generateBotResponse, the collection steps                      *)
(***************************************************************************)
\* !state.step || lowerMessage.includes('merhaba') || ...
IsGreeting(lowerMessage, state) ==
  \/ state.step = Absent
  \/ includes(lowerMessage, <<"m", "e", "r", "h", "a", "b", "a">>) \/ includes(lowerMessage, <<"s", "e", "l", "a", "m">>)
  \/ includes(lowerMessage, <<"b", "a", "s_cedilla", "l", "a">>) \/ includes(lowerMessage, <<"y", "e", "n", "i">>)

GreetingReply(state, currentDate) ==
  Reply("welcome", Absent,
        <<[state EXCEPT !.step = <<"waiting_for_apartment">>,
                        !.startYear = <<currentDate.year>>,
                        !.startMonth = <<currentDate.month>>]>>)

IsHelp(lowerMessage) ==
  \/ includes(lowerMessage, <<"y", "a", "r", "d", "i_dotless", "m">>) \/ includes(lowerMessage, <<"n", "a", "s", "i_dotless", "l">>)
  \/ includes(lowerMessage, <<"h", "e", "l", "p">>)

\* HelpReply returning a fresh conversation state with the message.
HelpReply_Restart == Reply("help", Absent, <<EmptyState>>)

HelpReply == Reply("help", Absent, Absent)

ApartmentStep(userMessage, state, apartments) ==
  LET evId == parseApartmentId(userMessage)
      apartment == find(apartments, evId)
  IN  IF evId # Null
      THEN IF apartment # Absent
           THEN Reply("apartment_selected", Absent,
                      <<[state EXCEPT !.apartmentId = evId,
                                      !.step = <<"waiting_for_interest_rate">>]>>)
           ELSE Reply("apartment_not_found", Absent, Absent)
      ELSE IF \/ parseAmount(userMessage) # Null \/ parseYear(userMessage) # Null
              \/ parseMonth(userMessage) # Null \/ parseInstallments(userMessage) # Null
              \/ parseInterestRate(userMessage) # Null
           THEN Reply("select_apartment_first", Absent, Absent)
           ELSE Reply("select_apartment", Absent, Absent)

\* annualToMonthlyRate(rate / 100) * 100
AnnualAsMonthlyPercent(rate) ==
  FMul(annualToMonthlyRate(FDiv(rate, FromInt(100))), FromInt(100))

\* !userMessage.includes('-') || !/^[A-Z]+-[A-Z0-9]+-\d+$/i.test(userMessage)
NotAnEvId(userMessage) == ~includes(userMessage, <<"-">>) \/ ~IsEvId(userMessage)

\* rate > 0 && rate < 1000
RateInRange(rate) == FGt(rate, FZero) /\ FLt(rate, FromInt(1000))

RateUnitStep(userMessage, lowerMessage, state) ==
  LET rateInfo == parseInterestRate(userMessage)
      numMatch == NumberMatch(userMessage)
      rate == parseFloat(replaceFirst(Val(numMatch), ",", "."))
  IN  IF \/ includes(lowerMessage, <<"y", "i_dotless", "l", "l", "i_dotless", "k">>) \/ includes(lowerMessage, <<"y", "i", "l", "l", "i", "k">>)
         \/ includes(lowerMessage, <<"a", "n", "n", "u", "a", "l">>)
         \/ lowerMessage \in {<<"e">>, <<"e", "v", "e", "t">>, <<"y">>, <<"y", "e", "s">>}
      THEN Reply("annual_chosen", Absent,
                 <<[state EXCEPT !.isAnnualRateSelected = <<TRUE>>]>>)
      ELSE IF \/ includes(lowerMessage, <<"a", "y", "l", "i_dotless", "k">>) \/ includes(lowerMessage, <<"a", "y", "l", "i", "k">>)
              \/ includes(lowerMessage, <<"m", "o", "n", "t", "h", "l", "y">>)
              \/ lowerMessage \in {<<"h">>, <<"h", "a", "y", "i_dotless", "r">>, <<"n">>, <<"n", "o">>, <<>>}
      THEN Reply("monthly_chosen", Absent,
                 <<[state EXCEPT !.isAnnualRateSelected = <<FALSE>>]>>)
      ELSE IF rateInfo # Null /\ Val(rateInfo).isAnnual
      THEN Reply("annual_rate_saved", Absent,
                 <<[state EXCEPT !.monthlyRate = <<AnnualAsMonthlyPercent(Val(rateInfo).rate)>>,
                                 !.isAnnualRateSelected = <<TRUE>>,
                                 !.step = <<"waiting_for_down_payment">>]>>)
      ELSE IF rateInfo # Null
      THEN Reply("monthly_rate_saved", Absent,
                 <<[state EXCEPT !.monthlyRate = <<Val(rateInfo).rate>>,
                                 !.isAnnualRateSelected = <<FALSE>>,
                                 !.step = <<"waiting_for_down_payment">>]>>)
      ELSE IF numMatch # Null /\ NotAnEvId(userMessage) /\ RateInRange(rate)
      THEN Reply("monthly_rate_saved", Absent,
                 <<[state EXCEPT !.monthlyRate = <<rate>>,
                                 !.isAnnualRateSelected = <<FALSE>>,
                                 !.step = <<"waiting_for_down_payment">>]>>)
      ELSE Reply("ask_rate_unit", Absent, Absent)

RateValueStep(userMessage, state) ==
  LET numMatch == NumberMatch(userMessage)
      rate == parseFloat(replaceFirst(Val(numMatch), ",", "."))
  IN  IF numMatch # Null /\ NotAnEvId(userMessage) /\ RateInRange(rate)
      THEN IF Val(state.isAnnualRateSelected)
           THEN Reply("annual_rate_saved", Absent,
                      <<[state EXCEPT !.monthlyRate = <<AnnualAsMonthlyPercent(rate)>>,
                                      !.step = <<"waiting_for_down_payment">>]>>)
           ELSE Reply("monthly_rate_saved", Absent,
                      <<[state EXCEPT !.monthlyRate = <<rate>>,
                                      !.step = <<"waiting_for_down_payment">>]>>)
      ELSE Reply("ask_rate_value", Absent, Absent)

InterestRateStep(userMessage, lowerMessage, state) ==
  IF parseApartmentId(userMessage) # Null
  THEN Reply("rate_step_apartment_already_selected", Absent, Absent)
  ELSE IF state.isAnnualRateSelected = Absent
  THEN RateUnitStep(userMessage, lowerMessage, state)
  ELSE RateValueStep(userMessage, state)

\* DownPaymentStep without the comparison with the property's price.
DownPaymentStep_NoPriceGuard(userMessage, state, apartments) ==
  LET amount == parseAmount(userMessage)
  IN  IF ~TruthyNum(state.monthlyRate)
      THEN Reply("rate_required_first", Absent,
                 <<[state EXCEPT !.step = <<"waiting_for_interest_rate">>]>>)
      ELSE IF parseApartmentId(userMessage) # Null
      THEN Reply("down_step_apartment_already_selected", Absent, Absent)
      ELSE IF amount = Null
      THEN Reply("down_not_understood", Absent, Absent)
      ELSE IF FLt(Val(amount), FromInt(1000))
      THEN Reply("down_too_small", Absent, Absent)
      ELSE Reply("down_saved", Absent,
                 <<[state EXCEPT !.downAmount = amount,
                                 !.step = <<"waiting_for_down_payment_year">>]>>)

DownPaymentStep(userMessage, state, apartments) ==
  LET amount == parseAmount(userMessage)
      apartment == find(apartments, state.apartmentId)
  IN  IF ~TruthyNum(state.monthlyRate)
      THEN Reply("rate_required_first", Absent,
                 <<[state EXCEPT !.step = <<"waiting_for_interest_rate">>]>>)
      ELSE IF parseApartmentId(userMessage) # Null
      THEN Reply("down_step_apartment_already_selected", Absent, Absent)
      ELSE IF amount = Null
      THEN Reply("down_not_understood", Absent, Absent)
      ELSE IF FLt(Val(amount), FromInt(1000))
      THEN Reply("down_too_small", Absent, Absent)
      ELSE IF apartment # Absent /\ FGt(Val(amount), Price(Val(apartment)))
      THEN Reply("down_exceeds_price", Absent, Absent)
      ELSE Reply("down_saved", Absent,
                 <<[state EXCEPT !.downAmount = amount,
                                 !.step = <<"waiting_for_down_payment_year">>]>>)

DownPaymentYearStep(userMessage, state, currentDate) ==
  LET year == parseYear(userMessage)
      defaultYear == IntOr(state.startYear, currentDate.year)
  IN  IF year # Null
      THEN Reply("year_saved", Absent,
                 <<[state EXCEPT !.downYear = year,
                                 !.step = <<"waiting_for_down_payment_month">>]>>)
      ELSE IF trim(userMessage) = <<>>
      THEN Reply("year_default_saved", Absent,
                 <<[state EXCEPT !.downYear = <<defaultYear>>,
                                 !.step = <<"waiting_for_down_payment_month">>]>>)
      ELSE Reply("year_not_understood", Absent, Absent)

\* DownPaymentMonthStep without the comparison with today's date.
DownPaymentMonthStep_NoPastCheck(userMessage, state, currentDate) ==
  LET month == parseMonth(userMessage)
  IN  IF month = Null
      THEN Reply("month_not_understood", Absent, Absent)
      ELSE Reply("month_saved", Absent,
                 <<[state EXCEPT !.downMonth = month,
                                 !.step = <<"waiting_for_installments">>]>>)

DownPaymentMonthStep(userMessage, state, currentDate) ==
  LET month == parseMonth(userMessage)
      today == NewDate(currentDate.year, currentDate.month - 1)
      downDate == NewDate(IntOr(state.downYear, currentDate.year), Val(month) - 1)
  IN  IF month = Null
      THEN Reply("month_not_understood", Absent, Absent)
      ELSE IF downDate.year * 12 + downDate.month < today.year * 12 + today.month
      THEN Reply("down_date_in_past", Absent, Absent)
      ELSE Reply("month_saved", Absent,
                 <<[state EXCEPT !.downMonth = month,
                                 !.step = <<"waiting_for_installments">>]>>)

\* CompletionReply without the validation of the implied interest.
CompletionReply_NoInterestCheck(npvResult, apartment, newState) ==
  IF npvResult.threw
  THEN Reply("calculation_error", Absent, Absent)
  ELSE IF \/ FLt(npvResult.modelA.monthlyInstallment, FZero)
          \/ FLt(npvResult.modelB.monthlyInstallment, FZero)
  THEN Reply("negative_installment", Absent, Absent)
  ELSE Reply("calculation_done", <<npvResult>>,
             <<[newState EXCEPT !.lastNpvResult = <<npvResult>>]>>)

\* The validation and the reply that follow a target-present-value solve at
\* the end of the collection.
CompletionReply(npvResult, apartment, newState) ==
  LET modelAInterest == FSub(npvResult.modelA.nominalTotal, Price(apartment))
      modelBInterest == FSub(npvResult.modelB.nominalTotal, Price(apartment))
  IN  IF npvResult.threw
      THEN Reply("calculation_error", Absent, Absent)
      ELSE IF \/ FLt(npvResult.modelA.monthlyInstallment, FZero)
              \/ FLt(npvResult.modelB.monthlyInstallment, FZero)
      THEN Reply("negative_installment", Absent, Absent)
      ELSE IF FLt(modelAInterest, FZero) \/ FLt(modelBInterest, FZero)
      THEN Reply("negative_interest", Absent, Absent)
      ELSE Reply("calculation_done", <<npvResult>>,
                 <<[newState EXCEPT !.lastNpvResult = <<npvResult>>]>>)

\* apartment && newState.monthlyRate && newState.downAmount &&
\* newState.downYear && newState.downMonth
ReadyToSolve(newState, apartments) ==
  /\ find(apartments, newState.apartmentId) # Absent
  /\ TruthyNum(newState.monthlyRate) /\ TruthyNum(newState.downAmount)
  /\ TruthyInt(newState.downYear) /\ TruthyInt(newState.downMonth)

SolveCollected(newState, apartments, currentDate) ==
  SolveTargetPvFor(Price(Val(find(apartments, newState.apartmentId))),
                   RateDecimal(Val(newState.monthlyRate)), Val(newState.downAmount),
                   Val(newState.downYear), Val(newState.downMonth),
                   Val(newState.nInstallments), newState, currentDate)

\* Lines 1314-1384: reached only when no step handler returned.
FinalBlock(newState, apartments, currentDate) ==
  IF /\ newState.step # <<"completed">>
     /\ newState.apartmentId # Absent /\ Val(newState.apartmentId) # <<>>
     /\ TruthyNum(newState.downAmount) /\ TruthyInt(newState.downYear)
     /\ TruthyInt(newState.downMonth) /\ TruthyInt(newState.nInstallments)
     /\ TruthyNum(newState.monthlyRate)
     /\ find(apartments, newState.apartmentId) # Absent
  THEN CompletionReply(SolveCollected(newState, apartments, currentDate),
                       Val(find(apartments, newState.apartmentId)),
                       [newState EXCEPT !.step = <<"completed">>])
  ELSE Reply("not_understood", Absent, Absent)

InstallmentsStep(userMessage, state, apartments, currentDate) ==
  LET installments == parseInstallments(userMessage)
      count == IF installments # Null THEN Val(installments) ELSE 24
      newState == [state EXCEPT !.nInstallments = <<count>>, !.step = <<"completed">>]
  IN  IF installments = Null /\ trim(userMessage) # <<>>
      THEN Reply("installments_not_understood", Absent, Absent)
      ELSE IF ReadyToSolve(newState, apartments)
      THEN CompletionReply(SolveCollected(newState, apartments, currentDate),
                           Val(find(apartments, newState.apartmentId)), newState)
      ELSE FinalBlock(newState, apartments, currentDate)

(***************************************************************************)
(* chatbot: generateBotResponse, the negotiation                           *)
(***************************************************************************)
lowerInstallmentKeywords ==
  { <<"d", "a", "h", "a", " ", "d", "u_diaeresis", "s_cedilla", "u_diaeresis", "k", " ", "t", "a", "k", "s", "i", "t">>, <<"d", "u_diaeresis", "s_cedilla", "u_diaeresis", "k", " ", "t", "a", "k", "s", "i", "t">>, <<"t", "a", "k", "s", "i", "t", " ", "f", "a", "z", "l", "a">>, <<"t", "a", "k", "s", "i", "t", " ", "c_cedilla", "o", "k">>,
    <<"d", "a", "h", "a", " ", "a", "z", " ", "t", "a", "k", "s", "i", "t">>, <<"d", "u_diaeresis", "s_cedilla", "u_diaeresis", "k", " ", "o_diaeresis", "d", "e", "m", "e">>, <<"a", "z", "a", "l", "t", "m", "a", "k">> }

\* state.step === 'completed' && state.lastNpvResult && a keyword
IsLowerInstallmentRequest(lowerMessage, state) ==
  /\ state.step = <<"completed">> /\ state.lastNpvResult # Absent
  /\ \E keyword \in lowerInstallmentKeywords : includes(lowerMessage, keyword)

LowerInstallmentRequestReply(state) ==
  Reply("ask_desired_installment", Absent,
        <<[state EXCEPT !.step = <<"waiting_for_lower_installment">>]>>)

\* calculatedInstallment >= desired - 5000 && calculatedInstallment <= desired + 5000
Feasible(installment, desiredInstallment) ==
  /\ FGe(installment, FSub(desiredInstallment, FromInt(5000)))
  /\ FLe(installment, FAdd(desiredInstallment, FromInt(5000)))

\* AcceptedReply that stores the plan but keeps the old down payment.
AcceptedReply_DownNotUpdated(state, npvResult) ==
  IF npvResult.threw
  THEN Reply("error_try_again", Absent, Absent)
  ELSE Reply("down_payment_updated", <<npvResult>>,
             <<[state EXCEPT !.step = <<"completed">>,
                             !.lastNpvResult = <<npvResult>>,
                             !.suggestedDownAmount = Absent]>>)

\* The reply of an accepted suggestion once the plan is re-solved.
AcceptedReply(state, npvResult) ==
  IF npvResult.threw
  THEN Reply("error_try_again", Absent, Absent)
  ELSE Reply("down_payment_updated", <<npvResult>>,
             <<[state EXCEPT !.downAmount = state.suggestedDownAmount,
                             !.step = <<"completed">>,
                             !.lastNpvResult = <<npvResult>>,
                             !.suggestedDownAmount = Absent]>>)

\* Lines 742-778 and again 1052-1088: an affirmative answer while a
\* suggested down payment is pending.  Null when the block does not return.
AcceptSuggestion(lowerMessage, state, apartments, currentDate) ==
  IF /\ TruthyNum(state.suggestedDownAmount)
     /\ \/ includes(lowerMessage, <<"e", "v", "e", "t">>) \/ includes(lowerMessage, <<"k", "a", "b", "u", "l">>)
        \/ includes(lowerMessage, <<"t", "a", "m", "a", "m">>) \/ lowerMessage = <<"e">>
     /\ find(apartments, state.apartmentId) # Absent
     /\ TruthyNum(state.desiredInstallment)
  THEN <<AcceptedReply(state,
           SolveTargetPvFor(Price(Val(find(apartments, state.apartmentId))),
                            RateDecimalOrDefault(state.monthlyRate),
                            Val(state.suggestedDownAmount),
                            Val(state.downYear), Val(state.downMonth),
                            IntOr(state.nInstallments, 24), state, currentDate))>>
  ELSE Null

\* The requested count of an "N ay ..." question about a longer term.
RequestedInstallments(userMessage, lowerMessage) ==
  LET installmentMatch == AyMatch(userMessage)
  IN  IF /\ installmentMatch # Null
         /\ \/ includes(lowerMessage, <<"t", "a", "k", "s", "i", "t", "l", "e">>) \/ includes(lowerMessage, <<"t", "a", "k", "s", "i", "t">>)
            \/ includes(lowerMessage, <<"o", "l", "a", "b", "i", "l", "i", "r">>) \/ includes(lowerMessage, <<"o", "l", "u", "r">>)
      THEN <<parseInt(Val(installmentMatch))>>
      ELSE Null

\* The reply to a longer term once the plan is re-solved with it.
ExtendedReply(state, requested, npvResult) ==
  IF npvResult.threw
  THEN Reply("error_try_again", Absent, Absent)
  ELSE IF Feasible(npvResult.modelA.monthlyInstallment, Val(state.desiredInstallment))
  THEN Reply("longer_term_fits", <<npvResult>>,
             <<[state EXCEPT !.nInstallments = requested,
                             !.step = <<"completed">>,
                             !.lastNpvResult = <<npvResult>>]>>)
  ELSE Reply("longer_term_does_not_fit", Absent, Absent)

\* Lines 781-829 and again 1091-1139.
ExtendTerm(userMessage, lowerMessage, state, apartments, currentDate) ==
  LET requested == RequestedInstallments(userMessage, lowerMessage)
  IN  IF /\ requested # Null
         /\ Val(requested) > IntOr(state.nInstallments, 24)
         /\ find(apartments, state.apartmentId) # Absent
         /\ TruthyNum(state.desiredInstallment)
      THEN <<ExtendedReply(state, requested,
               SolveTargetPvFor(Price(Val(find(apartments, state.apartmentId))),
                                RateDecimalOrDefault(state.monthlyRate),
                                Val(state.downAmount),
                                Val(state.downYear), Val(state.downMonth),
                                Val(requested), state, currentDate))>>
      ELSE Null

\* The while loop of the down-payment search from suggestedDownAmount on.
RECURSIVE DownPaymentSearch(_, _, _, _, _)
DownPaymentSearch(suggestedDownAmount, maxDownAmount, state, apartment, currentDate) ==
  IF ~FLe(suggestedDownAmount, maxDownAmount)
  THEN [foundFeasible |-> FALSE, suggestedDownAmount |-> suggestedDownAmount]
  ELSE IF Feasible(SolveTargetPvFor(Price(apartment),
                                    RateDecimalOrDefault(state.monthlyRate),
                                    suggestedDownAmount,
                                    Val(state.downYear), Val(state.downMonth),
                                    IntOr(state.nInstallments, 24), state,
                                    currentDate).modelA.monthlyInstallment,
                   Val(state.desiredInstallment))
  THEN [foundFeasible |-> TRUE, suggestedDownAmount |-> suggestedDownAmount]
  ELSE DownPaymentSearch(FAdd(suggestedDownAmount, FromInt(50000)),
                         maxDownAmount, state, apartment, currentDate)

\* RaisedReply that takes the found amount as the down payment at once.
RaisedReply_Commits(state, search) ==
  IF search.foundFeasible
  THEN Reply("raise_down_payment_suggested", Absent,
             <<[state EXCEPT !.downAmount = <<search.suggestedDownAmount>>]>>)
  ELSE Reply("raise_down_payment_not_enough", Absent, Absent)

\* The reply to a raise-the-down-payment question once the search is over.
RaisedReply(state, search) ==
  IF search.foundFeasible
  THEN Reply("raise_down_payment_suggested", Absent,
             <<[state EXCEPT !.suggestedDownAmount = <<search.suggestedDownAmount>>]>>)
  ELSE Reply("raise_down_payment_not_enough", Absent, Absent)

\* Lines 832-885 and again 1142-1195.
RaiseDownPayment(lowerMessage, state, apartments, currentDate) ==
  IF /\ includes(lowerMessage, <<"p", "e", "s_cedilla", "i", "n", "a", "t">>)
     /\ \/ includes(lowerMessage, <<"y", "u_diaeresis", "k", "s", "e", "l", "t">>) \/ includes(lowerMessage, <<"a", "r", "t", "i_dotless", "r">>)
        \/ includes(lowerMessage, <<"n", "e", " ", "k", "a", "d", "a", "r">>)
     /\ find(apartments, state.apartmentId) # Absent
     /\ TruthyNum(state.desiredInstallment)
  THEN <<RaisedReply(state,
           DownPaymentSearch(FAdd(NumOr(state.downAmount, FZero), FromInt(50000)),
                             FMul(Price(Val(find(apartments, state.apartmentId))),
                                  Dec(5, 10)),
                             state, Val(find(apartments, state.apartmentId)),
                             currentDate))>>
  ELSE Null

\* DesiredReply that lists the alternatives without keeping them.
DesiredReply_ListNotKept(newState, newNpvResult, alternatives) ==
  IF newNpvResult.threw
  THEN Reply("error_try_again", Absent, Absent)
  ELSE Reply(IF Len(alternatives) > 0 THEN "alternatives_listed" ELSE "no_alternative_found",
             Absent,
             <<[newState EXCEPT !.calculatedPv = <<newNpvResult.modelA.presentValue>>]>>)

\* The reply to a desired installment once the present value it affords
\* (newNpvResult) and the alternatives are computed.
DesiredReply(newState, newNpvResult, alternatives) ==
  IF newNpvResult.threw
  THEN Reply("error_try_again", Absent, Absent)
  ELSE IF \/ FLt(newNpvResult.modelA.monthlyInstallment, FZero)
          \/ FLt(newNpvResult.modelB.monthlyInstallment, FZero)
  THEN Reply("negative_installment_try_higher", Absent, Absent)
  ELSE IF \/ FLt(FSub(newNpvResult.modelA.nominalTotal,
                      newNpvResult.modelA.presentValue), FZero)
          \/ FLt(FSub(newNpvResult.modelB.nominalTotal,
                      newNpvResult.modelB.presentValue), FZero)
  THEN Reply("negative_interest_try_higher", Absent, Absent)
  ELSE IF Len(alternatives) > 0
  THEN Reply("alternatives_listed", Absent,
             <<[newState EXCEPT !.calculatedPv = <<newNpvResult.modelA.presentValue>>,
                                !.alternativeApartments = <<alternatives>>]>>)
  ELSE Reply("no_alternative_found", Absent,
             <<[newState EXCEPT !.calculatedPv = <<newNpvResult.modelA.presentValue>>]>>)

\* desiredInstallment * nInstallments + downAmount
NewNominalTotal(state, amount) ==
  FAdd(NumOr(state.downAmount, FZero),
       FMul(amount, FromInt(IntOr(state.nInstallments, 24))))

\* Lines 887-1046: the desired installment amount.
DesiredInstallmentReply(userMessage, state, apartments, currentDate) ==
  LET amount == parseAmount(userMessage)
  IN  IF amount = Null
      THEN Reply("desired_installment_not_understood", Absent, Absent)
      ELSE IF find(apartments, state.apartmentId) = Absent
      THEN Reply("error_no_apartment", Absent, Absent)
      ELSE DesiredReply(
             [state EXCEPT !.desiredInstallment = amount,
                           !.step = <<"showing_alternatives">>],
             SolveTargetNominalFor(NewNominalTotal(state, Val(amount)),
                                   RateDecimalOrDefault(state.monthlyRate),
                                   Val(state.downAmount),
                                   Val(state.downYear), Val(state.downMonth),
                                   Val(state.nInstallments), state, currentDate),
             findAlternativeApartments(apartments, Val(amount), Val(state.downAmount),
                                       Val(state.nInstallments),
                                       FMul(RateDecimalOrDefault(state.monthlyRate),
                                            FromInt(100)),
                                       Val(state.downYear), Val(state.downMonth),
                                       IntOr(state.startYear, currentDate.year),
                                       IntOr(state.startMonth, currentDate.month),
                                       Val(state.apartmentId), Tolerance))

\* first ?? rest: the reply of the first block that returns.
OrElse(first, rest) == IF first # Null THEN Val(first) ELSE rest

LowerInstallmentStep(userMessage, lowerMessage, state, apartments, currentDate) ==
  OrElse(AcceptSuggestion(lowerMessage, state, apartments, currentDate),
    OrElse(ExtendTerm(userMessage, lowerMessage, state, apartments, currentDate),
      OrElse(RaiseDownPayment(lowerMessage, state, apartments, currentDate),
             DesiredInstallmentReply(userMessage, state, apartments, currentDate))))

\* The apartment a list number or an id selects, Null when neither does.
SelectedAlternative(userMessage, state, apartments) ==
  LET listNumberMatch == ListNumberMatch(userMessage)
      index == parseInt(Val(listNumberMatch)) - 1
  IN  IF /\ listNumberMatch # Null /\ state.alternativeApartments # Absent
         /\ index >= 0 /\ index < Len(Val(state.alternativeApartments))
      THEN <<Val(state.alternativeApartments)[index + 1]>>
      ELSE find(apartments, parseApartmentId(userMessage))

\* SelectedReply that returns the plan without keeping it as the last result.
SelectedReply_ResultNotKept(newState, finalNpvResult) ==
  Reply("alternative_selected", <<finalNpvResult>>, <<newState>>)

\* The reply to a selection once the plan is re-solved for it.
SelectedReply(newState, finalNpvResult) ==
  IF \/ FLt(finalNpvResult.modelA.monthlyInstallment, FZero)
     \/ FLt(finalNpvResult.modelB.monthlyInstallment, FZero)
  THEN Reply("negative_installment_try_higher", Absent, Absent)
  ELSE IF \/ FLt(FSub(finalNpvResult.modelA.nominalTotal,
                      finalNpvResult.modelA.presentValue), FZero)
          \/ FLt(FSub(finalNpvResult.modelB.nominalTotal,
                      finalNpvResult.modelB.presentValue), FZero)
  THEN Reply("negative_interest_try_higher", Absent, Absent)
  ELSE Reply("alternative_selected", <<finalNpvResult>>,
             <<[newState EXCEPT !.lastNpvResult = <<finalNpvResult>>]>>)

\* Lines 1197-1267: the choice of an alternative by number or by id.
SelectAlternative(userMessage, state, apartments, currentDate) ==
  LET selectedApartment == SelectedAlternative(userMessage, state, apartments)
  IN  IF selectedApartment = Null
      THEN Reply("select_from_list", Absent, Absent)
      ELSE SelectedReply(
             [state EXCEPT !.apartmentId = <<Val(selectedApartment).ev_id>>,
                           !.step = <<"completed">>,
                           !.alternativeApartments = Absent],
             SolveTargetPvFor(Price(Val(selectedApartment)),
                              RateDecimalOrDefault(state.monthlyRate),
                              Val(state.downAmount),
                              Val(state.downYear), Val(state.downMonth),
                              Val(state.nInstallments), state, currentDate))

ShowingAlternativesStep(userMessage, lowerMessage, state, apartments, currentDate) ==
  OrElse(AcceptSuggestion(lowerMessage, state, apartments, currentDate),
    OrElse(ExtendTerm(userMessage, lowerMessage, state, apartments, currentDate),
      OrElse(RaiseDownPayment(lowerMessage, state, apartments, currentDate),
             SelectAlternative(userMessage, state, apartments, currentDate))))

CompletedStep(userMessage, state, apartments) ==
  LET evId == parseApartmentId(userMessage)
      apartment == find(apartments, evId)
      lower == toLowerCase(userMessage)
  IN  IF evId # Null /\ apartment # Absent
      THEN Reply("apartment_selected_again", Absent,
                 <<[state EXCEPT !.apartmentId = evId,
                                 !.step = <<"waiting_for_interest_rate">>,
                                 !.downAmount = Absent, !.downYear = Absent,
                                 !.downMonth = Absent, !.nInstallments = Absent,
                                 !.monthlyRate = Absent,
                                 !.isAnnualRateSelected = Absent,
                                 !.desiredInstallment = Absent,
                                 !.calculatedPv = Absent,
                                 !.lastNpvResult = Absent,
                                 !.alternativeApartments = Absent]>>)
      ELSE IF includes(lower, <<"d", "a", "h", "a", " ", "d", "u_diaeresis", "s_cedilla", "u_diaeresis", "k">>) \/ includes(lower, <<"d", "u_diaeresis", "s_cedilla", "u_diaeresis", "k", " ", "t", "a", "k", "s", "i", "t">>)
      THEN Reply("ask_desired_installment_plain", Absent,
                 <<[state EXCEPT !.step = <<"waiting_for_lower_installment">>]>>)
      ELSE Reply("anything_else", Absent, Absent)

(***************************************************************************)
(* chatbot: generateBotResponse                                            *)
(***************************************************************************)
\* The branch of generateBotResponse that answers userMessage in state.
Branch(userMessage, state) ==
  LET lowerMessage == trim(toLowerCase(userMessage))
  IN  IF IsGreeting(lowerMessage, state) THEN "greeting"
      ELSE IF IsHelp(lowerMessage) THEN "help"
      ELSE IF state.step = <<"completed">> /\ IsLowerInstallmentRequest(lowerMessage, state)
      THEN "lower_installment_request"
      ELSE Val(state.step)

generateBotResponse(userMessage, state, apartments, clock) ==
  LET lowerMessage == trim(toLowerCase(userMessage))
      currentDate == getCurrentDate(clock)
      branch == Branch(userMessage, state)
  IN  CASE branch = "greeting" -> GreetingReply(state, currentDate)
        [] branch = "help" -> HelpReply
        [] branch = "waiting_for_apartment" ->
             ApartmentStep(userMessage, state, apartments)
        [] branch = "waiting_for_interest_rate" ->
             InterestRateStep(userMessage, lowerMessage, state)
        [] branch = "waiting_for_down_payment" ->
             DownPaymentStep(userMessage, state, apartments)
        [] branch = "waiting_for_down_payment_year" ->
             DownPaymentYearStep(userMessage, state, currentDate)
        [] branch = "waiting_for_down_payment_month" ->
             DownPaymentMonthStep(userMessage, state, currentDate)
        [] branch = "waiting_for_installments" ->
             InstallmentsStep(userMessage, state, apartments, currentDate)
        [] branch = "lower_installment_request" ->
             LowerInstallmentRequestReply(state)
        [] branch = "waiting_for_lower_installment" ->
             LowerInstallmentStep(userMessage, lowerMessage, state, apartments, currentDate)
        [] branch = "showing_alternatives" ->
             ShowingAlternativesStep(userMessage, lowerMessage, state, apartments, currentDate)
        [] branch = "completed" ->
             CompletedStep(userMessage, state, apartments)

(***************************************************************************)
(* State                                                                   *)
(***************************************************************************)
VARIABLES
  inputs,    \* the NPVInputs of the last direct calculateNPV call
  result,    \* what that call returned
  called,    \* whether calculateNPV has been called directly
  context,   \* the ConversationState the caller keeps between turns
  reply,     \* what the last generateBotResponse call returned
  utterance, \* the userMessage of that call
  clock,     \* the calendar month new Date() shows
  catalog,   \* the apartments the page loaded and passes on every turn
  script,    \* how much of the scripted session the turns so far have followed
  search,    \* the locals of the down-payment search loop and where it stands
  match      \* the arguments and the result of a direct findAlternativeApartments call

npvVars == <<inputs, result, called>>
chatVars == <<context, reply, utterance, clock, catalog, script>>
loopVars == <<search, match>>
vars == <<inputs, result, called, context, reply, utterance, clock, catalog, script, search, match>>

\* The calendar month the clock shows (new Date()).
Today == [year |-> 2025, month |-> 11]

(***************************************************************************)
(* The solver on its own: calculateNPV applied to bounded inputs           *)
(***************************************************************************)
MaxInstallments == 4
MinOffset == 2
MaxOffsetPast == 3

SolverRates == {FZero, Dec(2, 100), Dec(1, 10)}
SolverTargetPvs == {FromInt(1000000), FromInt(761670)}
SolverTargetNominals == {FromInt(1200000), FromInt(300000)}
SolverDowns == {FZero, FromInt(300000)}
SolverCounts == (-1)..MaxInstallments
\* Down-payment dates from MinOffset months before the start date to
\* MaxOffsetPast months after the offset MaxInstallments + 1.
SolverDownDates ==
  {d \in [year : {Today.year - 1, Today.year, Today.year + 1, Today.year + 2},
          month : 1..12] :
     LET t == monthsBetween(Today.year, Today.month, d.year, d.month)
     IN  -MinOffset <= t /\ t <= MaxInstallments + 1 + MaxOffsetPast}

NoInputs == [targetPv |-> Undefined, targetNominal |-> Undefined,
             monthlyRate |-> FZero, downAmount |-> FZero,
             downYear |-> Today.year, downMonth |-> Today.month,
             nInstallments |-> 0,
             startYear |-> Today.year, startMonth |-> Today.month]

SolverInputs(targetPv, targetNominal, r, down, d, n) ==
  [targetPv |-> targetPv, targetNominal |-> targetNominal,
   monthlyRate |-> r, downAmount |-> down,
   downYear |-> d.year, downMonth |-> d.month, nInstallments |-> n,
   startYear |-> Today.year, startMonth |-> Today.month]

NoReply == Reply("", Absent, Absent)

\* No search under way, no matcher call made.
NoSearch == [pc |-> "none"]
NoMatch == [called |-> FALSE]

NPVInit ==
  /\ inputs = NoInputs
  /\ result = [threw |-> TRUE]
  /\ called = FALSE
  /\ context = EmptyState
  /\ reply = NoReply
  /\ utterance = <<>>
  /\ clock = Today
  /\ catalog = <<>>
  /\ script = 0
  /\ search = NoSearch
  /\ match = NoMatch

\* One call per behaviour: the function is pure, so a second call adds nothing.
Call(inp) ==
  /\ ~called
  /\ inputs' = inp
  /\ result' = calculateNPV(inp)
  /\ called' = TRUE
  /\ UNCHANGED <<chatVars, loopVars>>

\* calculateNPV({targetPv, ...}): MODE 1
SolveTargetPv ==
  \E pv \in SolverTargetPvs, r \in SolverRates, down \in SolverDowns,
     d \in SolverDownDates, n \in SolverCounts :
    Call(SolverInputs(pv, Undefined, r, down, d, n))

\* calculateNPV({targetNominal, ...}): MODE 2
SolveTargetNominal ==
  \E nom \in SolverTargetNominals, r \in SolverRates, down \in SolverDowns,
     d \in SolverDownDates, n \in SolverCounts :
    Call(SolverInputs(Undefined, nom, r, down, d, n))

\* calculateNPV with neither target.
SolveNoTarget ==
  \E r \in SolverRates, down \in SolverDowns,
     d \in SolverDownDates, n \in SolverCounts :
    Call(SolverInputs(Undefined, Undefined, r, down, d, n))

NPVNext == SolveTargetPv \/ SolveTargetNominal \/ SolveNoTarget

SpecNPV == NPVInit /\ [][NPVNext]_vars



(***************************************************************************)
(* The conversation: one generateBotResponse call per turn, the caller     *)
(* keeping the returned newState                                           *)
(***************************************************************************)
\* The catalog the caller passes on every turn.
Apartments ==
  << [ev_id |-> <<"G", "Z", "P", "-", "H", "0", "4", "-", "0", "0", "1">>, teslim_suresi |-> <<"9", " ", "A", "y">>, bugunku_pesin_fiyat |-> 761670],
     [ev_id |-> <<"G", "Z", "P", "-", "H", "1", "2", "-", "0", "0", "4">>, teslim_suresi |-> <<"1", "8", " ", "A", "y">>, bugunku_pesin_fiyat |-> 1250000],
     [ev_id |-> <<"G", "Z", "P", "-", "H", "0", "7", "-", "0", "0", "2">>, teslim_suresi |-> <<"1", "2", " ", "a", "y">>, bugunku_pesin_fiyat |-> 720000] >>

\* What the user may type at each step.
StepUtterances(step) ==
  CASE step = <<"waiting_for_apartment">> ->
         { <<"m", "e", "r", "h", "a", "b", "a">>, <<"h", "e", "l", "p">>, <<"h", "e", "l", "l", "o">>, <<"G", "Z", "P", "-", "H", "0", "4", "-", "0", "0", "1">>, <<"G", "Z", "P", "-", "X", "9", "9", "-", "9", "9", "9">>, <<"3", "0", "0", "0", "0", "0">> }
    [] step = <<"waiting_for_interest_rate">> ->
         { <<"G", "Z", "P", "-", "H", "0", "4", "-", "0", "0", "1">>, <<"m", "o", "n", "t", "h", "l", "y">>, <<"a", "n", "n", "u", "a", "l">>, <<"2">> }
    [] step = <<"waiting_for_down_payment">> ->
         { <<"m", "e", "r", "h", "a", "b", "a">>, <<"2", "8", "0", "0", "0", "0">>, <<"7", "5", "0", "0", "0", "0">>, <<"5", "0", "0">>, <<"2", "0", "0", "0", "0", "0", "0">> }
    [] step = <<"waiting_for_down_payment_year">> ->
         { <<>>, <<"2", "0", "2", "6">>, <<"2", "0", "2", "4">> }
    [] step = <<"waiting_for_down_payment_month">> ->
         { <<>>, <<"1", "1">>, <<"2", "4">> }
    [] step = <<"waiting_for_installments">> ->
         { <<>>, <<"2", "4">>, <<"3", " ", "a", "y">>, <<"G", "Z", "P", "-", "H", "0", "4", "-", "0", "0", "1">>, <<"G", "Z", "P", "-", "X", "0", "3", "-", "9", "9", "9">> }
    [] step = <<"completed">> ->
         { <<"h", "e", "l", "p">>, <<"G", "Z", "P", "-", "H", "0", "4", "-", "0", "0", "1">>, <<"d", "a", "h", "a", " ", "d", "u_diaeresis", "s_cedilla", "u_diaeresis", "k", " ", "t", "a", "k", "s", "i", "t", " ", "o_diaeresis", "d", "e", "m", "e", "k", " ", "i", "s", "t", "i", "y", "o", "r", "u", "m">> }
    [] step = <<"waiting_for_lower_installment">> ->
         { <<"2", "0", "0", "0", "0">>, <<"e", "v", "e", "t">> }
    [] step = <<"showing_alternatives">> ->
         { <<"1">>, <<"9">>, <<"G", "Z", "P", "-", "H", "0", "7", "-", "0", "0", "2">>, <<"G", "Z", "P", "-", "X", "9", "9", "-", "9", "9", "9">>, <<"6", " ", "a", "y", " ", "t", "a", "k", "s", "i", "t", "l", "e", " ", "o", "l", "a", "b", "i", "l", "i", "r", " ", "m", "i">>,
           <<"p", "e", "s_cedilla", "i", "n", "a", "t", "i_dotless", " ", "n", "e", " ", "k", "a", "d", "a", "r", " ", "y", "u_diaeresis", "k", "s", "e", "l", "t", "i", "r", "s", "e", "m", " ", "o", "l", "a", "b", "i", "l", "i", "r">>, <<"e", "v", "e", "t">> }
    [] OTHER -> { <<"h", "e", "l", "l", "o">> }

\* What the user also says in a negotiation round opened while the list of
\* an earlier round is still stored: another desired installment.
LaterRoundUtterances(state) ==
  IF state.step = <<"waiting_for_lower_installment">> /\ state.alternativeApartments # Absent
  THEN { <<"4", "0", "0", "0", "0">> }
  ELSE {}

\* A second catalog file: a dear property and a cheap one.
SecondCatalog ==
  << [ev_id |-> <<"G", "Z", "P", "-", "A", "0", "1", "-", "0", "0", "1">>, teslim_suresi |-> <<"1", "8", " ", "A", "y">>, bugunku_pesin_fiyat |-> 1250000],
     [ev_id |-> <<"G", "Z", "P", "-", "B", "0", "2", "-", "0", "0", "2">>, teslim_suresi |-> <<"6", " ", "a", "y">>, bugunku_pesin_fiyat |-> 300000] >>

\* What the user may type at each step of a session on the second catalog:
\* monthly rates of 1% and less, written '1' and '1%'.
SecondStepUtterances(step) ==
  CASE step = <<"waiting_for_apartment">> -> { <<"h", "e", "l", "l", "o">>, <<"h", "e", "l", "p">>, <<"G", "Z", "P", "-", "A", "0", "1", "-", "0", "0", "1">> }
    [] step = <<"waiting_for_interest_rate">> -> { <<"m", "o", "n", "t", "h", "l", "y">>, <<"1">>, <<"1", "%">> }
    [] step = <<"waiting_for_down_payment">> -> { <<"2", "8", "0", "0", "0", "0">> }
    [] step = <<"waiting_for_down_payment_year">> -> { <<>> }
    [] step = <<"waiting_for_down_payment_month">> -> { <<"1", "1">> }
    [] step = <<"waiting_for_installments">> -> { <<>> }
    [] step = <<"completed">> ->
         { <<"h", "e", "l", "p">>, <<"G", "Z", "P", "-", "A", "0", "1", "-", "0", "0", "1">>, <<"d", "a", "h", "a", " ", "d", "u_diaeresis", "s_cedilla", "u_diaeresis", "k", " ", "t", "a", "k", "s", "i", "t", " ", "o_diaeresis", "d", "e", "m", "e", "k", " ", "i", "s", "t", "i", "y", "o", "r", "u", "m">> }
    [] step = <<"waiting_for_lower_installment">> -> { <<"4", "0", "0", "0", "0">>, <<"e", "v", "e", "t">> }
    [] step = <<"showing_alternatives">> ->
         { <<"G", "Z", "P", "-", "B", "0", "2", "-", "0", "0", "2">>, <<"p", "e", "s_cedilla", "i", "n", "a", "t", "i_dotless", " ", "n", "e", " ", "k", "a", "d", "a", "r", " ", "y", "u_diaeresis", "k", "s", "e", "l", "t", "i", "r", "s", "e", "m", " ", "o", "l", "a", "b", "i", "l", "i", "r">>, <<"e", "v", "e", "t">> }
    [] OTHER -> { <<"h", "e", "l", "l", "o">> }

Utterances ==
  IF catalog = SecondCatalog
  THEN SecondStepUtterances(context.step)
  ELSE StepUtterances(context.step) \cup LaterRoundUtterances(context)

\* The session context the page creates when it has loaded the catalog.
LoadedState ==
  [EmptyState EXCEPT !.startYear = <<Today.year>>, !.startMonth = <<Today.month>>,
                     !.step = <<"waiting_for_apartment">>]

\* The scripted session: a greeting, a catalog property's id, 'monthly',
\* '2', a down payment between 1,000 and the property's price, '', '', '24'.
Said(text) == [kind |-> "text", text |-> text]
Script ==
  << [kind |-> "greeting", text |-> <<>>], [kind |-> "property id", text |-> <<>>],
     Said(<<"m", "o", "n", "t", "h", "l", "y">>), Said(<<"2">>), [kind |-> "down amount", text |-> <<>>],
     Said(<<>>), Said(<<>>), Said(<<"2", "4">>) >>

\* userMessage, said in state, is the k-th utterance of the script.
FollowsScript(k, userMessage, state) ==
  /\ k <= Len(Script)
  /\ CASE Script[k].kind = "greeting" -> Branch(userMessage, state) = "greeting"
       [] Script[k].kind = "property id" ->
            /\ IsEvId(userMessage)
            /\ find(Apartments, parseApartmentId(userMessage)) # Absent
       [] Script[k].kind = "down amount" ->
            /\ parseAmount(userMessage) # Null
            /\ find(Apartments, state.apartmentId) # Absent
            /\ FGe(Val(parseAmount(userMessage)), FromInt(1000))
            /\ FLe(Val(parseAmount(userMessage)),
                   Price(Val(find(Apartments, state.apartmentId))))
       [] OTHER -> userMessage = Script[k].text

Init ==
  /\ inputs = NoInputs
  /\ result = [threw |-> TRUE]
  /\ called = FALSE
  /\ context \in {EmptyState, LoadedState}
  /\ reply = NoReply
  /\ utterance = <<>>
  /\ clock = Today
  /\ catalog = Apartments
  /\ script = 0
  /\ search = NoSearch
  /\ match = NoMatch

\* One turn: generateBotResponse(userMessage, context, apartments) is called
\* and the caller keeps the newState it returns, if any, as handleSendMessage
\* does.  The engine is called with every utterance, the blank one included
\* (handleSendMessage itself sends no blank message).
Respond(userMessage, response) ==
  /\ reply' = response
  /\ context' = IF response.newState # Absent THEN Val(response.newState) ELSE context
  /\ utterance' = userMessage
  /\ script' = IF script >= 0 /\ FollowsScript(script + 1, userMessage, context)
               THEN script + 1 ELSE -1
  /\ UNCHANGED <<clock, catalog, npvVars, loopVars>>

\* const lowerMessage = userMessage.toLowerCase().trim()
Lower(userMessage) == trim(toLowerCase(userMessage))

Greet ==
  \E userMessage \in Utterances :
    /\ Branch(userMessage, context) = "greeting"
    /\ Respond(userMessage, GreetingReply(context, getCurrentDate(clock)))

AskHelp ==
  \E userMessage \in Utterances :
    /\ Branch(userMessage, context) = "help"
    /\ Respond(userMessage, HelpReply)

SelectApartment ==
  /\ context.step = <<"waiting_for_apartment">>
  /\ \E userMessage \in Utterances :
       /\ Branch(userMessage, context) = "waiting_for_apartment"
       /\ Respond(userMessage, ApartmentStep(userMessage, context, catalog))

GiveInterestRate ==
  /\ context.step = <<"waiting_for_interest_rate">>
  /\ \E userMessage \in Utterances :
       /\ Branch(userMessage, context) = "waiting_for_interest_rate"
       /\ Respond(userMessage,
                  InterestRateStep(userMessage, Lower(userMessage), context))

GiveDownPayment ==
  /\ context.step = <<"waiting_for_down_payment">>
  /\ \E userMessage \in Utterances :
       /\ Branch(userMessage, context) = "waiting_for_down_payment"
       /\ Respond(userMessage, DownPaymentStep(userMessage, context, catalog))

GiveDownPaymentYear ==
  /\ context.step = <<"waiting_for_down_payment_year">>
  /\ \E userMessage \in Utterances :
       /\ Branch(userMessage, context) = "waiting_for_down_payment_year"
       /\ Respond(userMessage,
                  DownPaymentYearStep(userMessage, context, getCurrentDate(clock)))

GiveDownPaymentMonth ==
  /\ context.step = <<"waiting_for_down_payment_month">>
  /\ \E userMessage \in Utterances :
       /\ Branch(userMessage, context) = "waiting_for_down_payment_month"
       /\ Respond(userMessage,
                  DownPaymentMonthStep(userMessage, context, getCurrentDate(clock)))

GiveInstallments ==
  /\ context.step = <<"waiting_for_installments">>
  /\ \E userMessage \in Utterances :
       /\ Branch(userMessage, context) = "waiting_for_installments"
       /\ Respond(userMessage,
                  InstallmentsStep(userMessage, context, catalog,
                                   getCurrentDate(clock)))

AskLowerInstallment ==
  /\ context.step = <<"completed">>
  /\ \E userMessage \in Utterances :
       /\ Branch(userMessage, context) = "lower_installment_request"
       /\ Respond(userMessage, LowerInstallmentRequestReply(context))

GiveDesiredInstallment ==
  /\ context.step = <<"waiting_for_lower_installment">>
  /\ \E userMessage \in Utterances :
       /\ Branch(userMessage, context) = "waiting_for_lower_installment"
       /\ Respond(userMessage,
                  LowerInstallmentStep(userMessage, Lower(userMessage), context,
                                       catalog, getCurrentDate(clock)))

ChooseAlternative ==
  /\ context.step = <<"showing_alternatives">>
  /\ \E userMessage \in Utterances :
       /\ Branch(userMessage, context) = "showing_alternatives"
       /\ Respond(userMessage,
                  ShowingAlternativesStep(userMessage, Lower(userMessage), context,
                                          catalog, getCurrentDate(clock)))

AfterCompleted ==
  /\ context.step = <<"completed">>
  /\ \E userMessage \in Utterances :
       /\ Branch(userMessage, context) = "completed"
       /\ Respond(userMessage, CompletedStep(userMessage, context, catalog))

Next ==
  \/ Greet \/ AskHelp \/ SelectApartment \/ GiveInterestRate \/ GiveDownPayment
  \/ GiveDownPaymentYear \/ GiveDownPaymentMonth \/ GiveInstallments
  \/ AskLowerInstallment \/ GiveDesiredInstallment \/ ChooseAlternative
  \/ AfterCompleted

Spec == Init /\ [][Next]_vars

\* A session of the page when it has loaded the second catalog.
SecondInit ==
  /\ inputs = NoInputs
  /\ result = [threw |-> TRUE]
  /\ called = FALSE
  /\ context \in {EmptyState, LoadedState}
  /\ reply = NoReply
  /\ utterance = <<>>
  /\ clock = Today
  /\ catalog = SecondCatalog
  /\ script = 0
  /\ search = NoSearch
  /\ match = NoMatch

SpecSecond == SecondInit /\ [][Next]_vars

\* Every turn's reply is what generateBotResponse returns for the turn.
TurnIsEngineCall ==
  [][reply' = generateBotResponse(utterance', context, catalog, clock)]_vars

(***************************************************************************)
(* The down-payment search loop, one iteration per step                    *)
(***************************************************************************)
\* The negotiation contexts the search is started from.
SearchDowns == {FZero, FromInt(280000), FromInt(400000), FromInt(750000)}
SearchDesired == {FromInt(5000), FromInt(20000), FromInt(40000)}
SearchDownYears == {Today.year, Today.year + 1}

SearchState(apt, down, year, desired) ==
  [EmptyState EXCEPT !.step = <<"showing_alternatives">>,
                     !.apartmentId = <<apt.ev_id>>,
                     !.monthlyRate = <<FromInt(2)>>, !.isAnnualRateSelected = <<FALSE>>,
                     !.downAmount = <<down>>,
                     !.downYear = <<year>>, !.downMonth = <<Today.month>>,
                     !.nInstallments = <<24>>,
                     !.startYear = <<Today.year>>, !.startMonth = <<Today.month>>,
                     !.desiredInstallment = <<desired>>]

\* const step = 50000; the ceiling is the price * 0.5
SearchStepAmount == FromInt(50000)
CeilingShare == Dec(5, 10)

\* The installment the loop body computes for a suggested down payment.
InstallmentFor(apartment, state, suggestedDownAmount, currentDate) ==
  SolveTargetPvFor(Price(apartment), RateDecimalOrDefault(state.monthlyRate),
                   suggestedDownAmount,
                   Val(state.downYear), Val(state.downMonth),
                   IntOr(state.nInstallments, 24), state,
                   currentDate).modelA.monthlyInstallment

\* The down payments a search from this context can come to suggest.
Suggestions(apartment, state) ==
  {g \in {FAdd(NumOr(state.downAmount, FZero), FromInt(50000 * k)) :
             k \in 1..((apartment.bugunku_pesin_fiyat \div 100000) + 1)} :
     FLe(g, FMul(Price(apartment), CeilingShare))}

\* The solver's answers for those down payments, looked up by the loop body.
Solved(apartment, state, currentDate) ==
  [g \in Suggestions(apartment, state) |-> InstallmentFor(apartment, state, g, currentDate)]

SearchInit ==
  /\ inputs = NoInputs
  /\ result = [threw |-> TRUE]
  /\ called = FALSE
  /\ \E i \in 1..Len(Apartments), down \in SearchDowns, year \in SearchDownYears,
        desired \in SearchDesired :
       /\ context = SearchState(Apartments[i], down, year, desired)
       /\ search = [pc |-> "request", apartment |-> Apartments[i],
                    solved |-> Solved(Apartments[i],
                                      SearchState(Apartments[i], down, year, desired),
                                      getCurrentDate(Today))]
  /\ reply = NoReply
  /\ utterance = <<>>
  /\ clock = Today
  /\ catalog = <<>>
  /\ script = -1
  /\ match = NoMatch

\* if (!foundFeasible) { suggestedDownAmount += step; }
NextSuggestion_NoStep(suggestedDownAmount, foundFeasible) == suggestedDownAmount

NextSuggestion(suggestedDownAmount, foundFeasible) ==
  IF foundFeasible THEN suggestedDownAmount
  ELSE FAdd(suggestedDownAmount, SearchStepAmount)

\* suggestedDownAmount <= maxDownAmount && !foundFeasible
SearchContinues ==
  /\ FLe(search.suggestedDownAmount, search.maxDownAmount)
  /\ ~search.foundFeasible

\* The declarations before the loop.
SearchEnter ==
  /\ search.pc = "request"
  /\ search' = [pc |-> "loop", apartment |-> search.apartment, solved |-> search.solved,
                suggestedDownAmount |->
                  FAdd(NumOr(context.downAmount, FZero), SearchStepAmount),
                maxDownAmount |-> FMul(Price(search.apartment), CeilingShare),
                foundFeasible |-> FALSE]
  /\ UNCHANGED <<npvVars, chatVars, match>>

SuggestedInstallment == search.solved[search.suggestedDownAmount]

SearchBody(foundFeasible) ==
  search' = [search EXCEPT !.foundFeasible = foundFeasible,
                           !.suggestedDownAmount =
                             NextSuggestion(search.suggestedDownAmount, foundFeasible)]

\* One iteration of the while loop.
SearchIterate ==
  /\ search.pc = "loop"
  /\ SearchContinues
  /\ SearchBody(Feasible(SuggestedInstallment, Val(context.desiredInstallment)))
  /\ UNCHANGED <<npvVars, chatVars, match>>

\* The loop condition fails: the reply is built and the turn returns.
SearchExit ==
  /\ search.pc = "loop"
  /\ ~SearchContinues
  /\ search' = [search EXCEPT !.pc = "done"]
  /\ UNCHANGED <<npvVars, chatVars, match>>

SearchNext == SearchEnter \/ SearchIterate \/ SearchExit

\* The engine runs the loop to its end once it has entered it.
SpecSearch ==
  /\ SearchInit /\ [][SearchNext]_vars
  /\ WF_vars(SearchEnter) /\ WF_vars(SearchIterate) /\ WF_vars(SearchExit)

\* The loop ends with what DownPaymentSearch computes in one go.
LoopIsDownPaymentSearch ==
  search.pc = "done" =>
    [foundFeasible |-> search.foundFeasible,
     suggestedDownAmount |-> search.suggestedDownAmount]
      = DownPaymentSearch(FAdd(NumOr(context.downAmount, FZero), FromInt(50000)),
                          search.maxDownAmount, context, search.apartment,
                          getCurrentDate(clock))

(***************************************************************************)
(* findAlternativeApartments called on its own                             *)
(***************************************************************************)
\* The apartments the catalogs are made of: at ten installments without
\* interest the installment is a tenth of the price.
AptCurrent == [ev_id |-> <<"G", "Z", "P", "-", "H", "0", "4", "-", "0", "0", "1">>, teslim_suresi |-> <<"9", " ", "A", "y">>, bugunku_pesin_fiyat |-> 155000]
AptA == [ev_id |-> <<"G", "Z", "P", "-", "A", "0", "1", "-", "0", "0", "1">>, teslim_suresi |-> <<"6", " ", "a", "y">>, bugunku_pesin_fiyat |-> 100000]
AptB == [ev_id |-> <<"G", "Z", "P", "-", "B", "0", "1", "-", "0", "0", "2">>, teslim_suresi |-> <<"1", "2", " ", "a", "y">>, bugunku_pesin_fiyat |-> 106000]
AptC == [ev_id |-> <<"G", "Z", "P", "-", "C", "0", "1", "-", "0", "0", "3">>, teslim_suresi |-> <<"1", "8", " ", "A", "y">>, bugunku_pesin_fiyat |-> 112000]
AptE == [ev_id |-> <<"G", "Z", "P", "-", "E", "0", "1", "-", "0", "0", "5">>, teslim_suresi |-> <<"h", "e", "m", "e", "n">>, bugunku_pesin_fiyat |-> 89000]
AptP == [ev_id |-> <<"G", "Z", "P", "-", "P", "0", "1", "-", "0", "0", "6">>, teslim_suresi |-> <<"1", "2", " ", "a", "y">>, bugunku_pesin_fiyat |-> 111000]
AptF == [ev_id |-> <<"G", "Z", "P", "-", "F", "0", "1", "-", "0", "0", "7">>, teslim_suresi |-> <<"2", "4", " ", "a", "y">>, bugunku_pesin_fiyat |-> 122000]
AptQ == [ev_id |-> <<"G", "Z", "P", "-", "Q", "0", "1", "-", "0", "0", "8">>, teslim_suresi |-> <<"3", " ", "a", "y">>, bugunku_pesin_fiyat |-> 133000]
AptH == [ev_id |-> <<"G", "Z", "P", "-", "H", "1", "2", "-", "0", "0", "4">>, teslim_suresi |-> <<"1", "8", " ", "A", "y">>, bugunku_pesin_fiyat |-> 144000]
AptZ == [ev_id |-> <<"G", "Z", "P", "-", "Z", "0", "1", "-", "0", "0", "9">>, teslim_suresi |-> <<"1", "2", " ", "a", "y">>, bugunku_pesin_fiyat |-> 0]

Reverse(s) == [i \in 1..Len(s) |-> s[Len(s) + 1 - i]]

SmallCatalog == <<AptCurrent, AptA, AptB, AptC>>
LargeCatalog == <<AptCurrent, AptH, AptZ, AptE, AptQ, AptA, AptF, AptP>>
Catalogs ==
  {SmallCatalog, Reverse(SmallCatalog), LargeCatalog, Reverse(LargeCatalog),
   <<AptA, AptB, AptC>>, <<AptCurrent>>, <<>>}

MatchDesired == {FromInt(3000), FromInt(10000), FromInt(50000)}
MatchTolerances == {FZero, FromInt(1000), FromInt(5000)}
MatchCurrent == {AptCurrent.ev_id, AptA.ev_id, <<"G", "Z", "P", "-", "X", "9", "9", "-", "9", "9", "9">>}
MatchRates == {FZero, FromInt(2)}

MatchInit ==
  /\ inputs = NoInputs
  /\ result = [threw |-> TRUE]
  /\ called = FALSE
  /\ context = EmptyState
  /\ reply = NoReply
  /\ utterance = <<>>
  /\ clock = Today
  /\ catalog = <<>>
  /\ script = -1
  /\ search = NoSearch
  /\ \E apartments \in Catalogs, desiredInstallment \in MatchDesired,
        installmentTolerance \in MatchTolerances, currentApartmentId \in MatchCurrent,
        monthlyRate \in MatchRates :
       match = [called |-> FALSE, apartments |-> apartments,
                desiredInstallment |-> desiredInstallment,
                installmentTolerance |-> installmentTolerance,
                currentApartmentId |-> currentApartmentId,
                monthlyRate |-> monthlyRate, alternatives |-> <<>>]

\* The entry the matcher computes for an apartment under the call's arguments.
CandidateIn(args, apt) ==
  MatcherCandidate(apt, FZero, 10, args.monthlyRate,
                   Today.year, Today.month, Today.year, Today.month)

\* matching as the call computes it.
MatchingIn(args) ==
  MatchingCandidates(args.apartments, args.desiredInstallment, FZero, 10,
                     args.monthlyRate, Today.year, Today.month, Today.year, Today.month,
                     args.currentApartmentId, args.installmentTolerance)

\* The comparator is a consistent comparator for the items: antisymmetric
\* and transitive, ties included.
ConsistentComparator(items, desiredInstallment) ==
  LET Cmp(a, b) == Sgn(CompareCandidates(a, b, desiredInstallment))
  IN  /\ \A a, b \in items : Cmp(a, b) = -Cmp(b, a)
      /\ \A a, b, c \in items :
           (Cmp(a, b) = Cmp(b, c)) => (Cmp(a, c) = Cmp(a, b))

Orderings(s) ==
  {[i \in 1..Len(s) |-> s[p[i]]] :
     p \in {q \in [1..Len(s) -> 1..Len(s)] : \A i, j \in 1..Len(s) : q[i] = q[j] => i = j}}

\* What matching.sort can leave: the sorted order under a consistent
\* comparator, and an implementation-defined order otherwise.
SortOutcomes(matching, desiredInstallment) ==
  IF ConsistentComparator(Range(matching), desiredInstallment)
  THEN {SortMatching(matching, desiredInstallment)}
  ELSE Orderings(matching)

\* One call of findAlternativeApartments.
FindAlternatives ==
  /\ ~match.called
  /\ \E sorted \in SortOutcomes(MatchingIn(match), match.desiredInstallment) :
       match' = [match EXCEPT
                   !.called = TRUE,
                   !.alternatives =
                     IF find(match.apartments, <<match.currentApartmentId>>) = Absent
                     THEN <<>> ELSE TopApartments(sorted)]
  /\ UNCHANGED <<npvVars, chatVars, search>>

SpecMatch == MatchInit /\ [][FindAlternatives]_vars

\* With a consistent comparator the call returns findAlternativeApartments.
CallIsFindAlternativeApartments ==
  (match.called /\ ConsistentComparator(Range(MatchingIn(match)), match.desiredInstallment))
    => match.alternatives =
         findAlternativeApartments(match.apartments, match.desiredInstallment, FZero, 10,
                                   match.monthlyRate, Today.year, Today.month,
                                   Today.year, Today.month,
                                   match.currentApartmentId, match.installmentTolerance)
(***************************************************************************)
(* Solver claims                                                           *)
(***************************************************************************)
FMax(a, b) == IF FLt(a, b) THEN b ELSE a

\* Equality of two computed amounts up to the relative tolerance 1e-6.
Close(a, b) ==
  /\ IsFin(a) /\ IsFin(b)
  /\ FLe(FAbs(FSub(a, b)), FMul(Dec(1, 1000000), FMax(FAbs(a), FAbs(b))))

PvMode == called /\ inputs.targetPv # Undefined
NominalMode == called /\ inputs.targetPv = Undefined /\ inputs.targetNominal # Undefined
DownOffset ==
  monthsBetween(inputs.startYear, inputs.startMonth, inputs.downYear, inputs.downMonth)

\* The month offset of a schedule entry's "YYYY-MM" from the start month.
OffsetOf(entry) ==
  (entry.date.y - inputs.startYear) * 12 + (entry.date.mo - inputs.startMonth)

\* Sum of 1/(1+r)^k over k in lo..hi except the offsets in omit.
RECURSIVE RefDiscountSum(_, _, _, _)
RefDiscountSum(r, lo, hi, omit) ==
  IF hi < lo THEN FZero
  ELSE LET rest == RefDiscountSum(r, lo, hi - 1, omit)
       IN  IF hi \in omit THEN rest
           ELSE FAdd(rest, FDiv(FOne, FPow(FAdd(FOne, r), hi)))

\* Sum of the amounts of schedule[1..i].
RECURSIVE SumAmounts(_, _)
SumAmounts(schedule, i) ==
  IF i = 0 THEN FZero ELSE FAdd(SumAmounts(schedule, i - 1), schedule[i].amount)

\* The down payment's present value plus the discounted schedule of a model.
DiscountedTotal(m) == FAdd(result.downPaymentPV, pvOfSchedule(m.schedule, inputs))

\* C2: in target-present-value mode with n >= 1, for Model A and for
\* Model B, the down payment's present value plus the discounted sum of
\* the returned schedule equals the requested targetPv, whatever the
\* down-payment offset.
C2_TargetPvReproduced ==
  (PvMode /\ inputs.nInstallments >= 1) =>
     /\ Close(DiscountedTotal(result.modelA), inputs.targetPv)
     /\ Close(DiscountedTotal(result.modelB), inputs.targetPv)

RemainingPvRef ==
  FSub(inputs.targetPv,
       FDiv(inputs.downAmount, FPow(FAdd(FOne, inputs.monthlyRate), DownOffset)))

\* C3: in target-present-value mode Model A's installment is
\* (targetPv - down/(1+r)^t) / sum_{k=1..n} 1/(1+r)^k and Model B's is the
\* same numerator over sum_{k=1..n+1} 1/(1+r)^k with the term k = t left
\* out when 1 <= t <= n+1.
C3_InstallmentFormula ==
  (PvMode /\ inputs.nInstallments >= 1) =>
     LET n == inputs.nInstallments
         r == inputs.monthlyRate
         omit == IF 1 <= DownOffset /\ DownOffset <= n + 1 THEN {DownOffset} ELSE {}
     IN  /\ Close(result.modelA.monthlyInstallment,
                  FDiv(RemainingPvRef, RefDiscountSum(r, 1, n, {})))
         /\ Close(result.modelB.monthlyInstallment,
                  FDiv(RemainingPvRef, RefDiscountSum(r, 1, n + 1, omit)))

C3_Witness ==
  /\ PvMode /\ inputs.nInstallments >= 2
  /\ 1 <= DownOffset /\ DownOffset <= inputs.nInstallments + 1
  /\ FGt(inputs.monthlyRate, FZero)
  /\ FGt(result.modelB.monthlyInstallment, result.modelA.monthlyInstallment)

NominalOf(m) ==
  /\ Close(m.nominalTotal,
           FAdd(inputs.downAmount, FMul(m.monthlyInstallment, FromInt(inputs.nInstallments))))
  /\ Close(m.nominalTotal,
           FAdd(inputs.downAmount, SumAmounts(m.schedule, Len(m.schedule))))

\* C4: in both modes each model's nominalTotal is downAmount + T*n for its
\* own T and is the down payment plus the sum of its schedule's amounts;
\* in target-nominal mode T = (targetNominal - downAmount)/n for both
\* models and the nominal total is the requested targetNominal.
C4_NominalTotal ==
  ((PvMode \/ NominalMode) /\ inputs.nInstallments >= 1) =>
     /\ NominalOf(result.modelA)
     /\ NominalOf(result.modelB)
     /\ NominalMode =>
          /\ result.modelA.monthlyInstallment = result.modelB.monthlyInstallment
          /\ Close(result.modelA.monthlyInstallment,
                   FDiv(FSub(inputs.targetNominal, inputs.downAmount),
                        FromInt(inputs.nInstallments)))
          /\ Close(result.modelA.nominalTotal, inputs.targetNominal)
          /\ Close(result.modelB.nominalTotal, inputs.targetNominal)

C4_Witness ==
  /\ NominalMode /\ inputs.nInstallments >= 2
  /\ FGt(result.modelB.monthlyInstallment, FZero)
  /\ FGt(inputs.downAmount, FZero)

OffsetStrictlyInside == 1 < DownOffset /\ DownOffset < inputs.nInstallments

\* C5 as stated: in target-nominal mode, whenever 1 < t < n the present
\* values returned for Model A and Model B differ.
C5_PresentValuesDiffer ==
  (NominalMode /\ OffsetStrictlyInside) =>
     result.modelA.presentValue # result.modelB.presentValue

\* C5 amended: in target-nominal mode, whenever 1 < t < n, the monthly
\* rate is positive and the common installment is not zero, the present
\* values returned for Model A and Model B differ.
C5_PresentValuesDifferAmended ==
  (/\ NominalMode /\ OffsetStrictlyInside
   /\ FGt(inputs.monthlyRate, FZero)
   /\ result.modelA.monthlyInstallment # FZero) =>
     result.modelA.presentValue # result.modelB.presentValue

C5_Witness ==
  /\ NominalMode /\ OffsetStrictlyInside
  /\ FGt(inputs.monthlyRate, FZero)
  /\ FGt(result.modelA.monthlyInstallment, FZero)
  /\ FGt(result.modelA.presentValue, result.modelB.presentValue)

DownMonthStr == [y |-> inputs.downYear, mo |-> inputs.downMonth]

\* C6: for n >= 1 Model B's schedule has exactly n installment entries,
\* none dated in the down payment's calendar month, at n distinct month
\* offsets within 1..n+1.
C6_SkipSchedule ==
  ((PvMode \/ NominalMode) /\ inputs.nInstallments >= 1) =>
     LET sched == result.modelB.schedule
         n == inputs.nInstallments
     IN  /\ Len(sched) = n
         /\ \A i \in 1..Len(sched) :
              /\ sched[i].type = "installment"
              /\ sched[i].date # DownMonthStr
              /\ OffsetOf(sched[i]) \in 1..(n + 1)
         /\ Cardinality({OffsetOf(sched[i]) : i \in 1..Len(sched)}) = n

C6_Witness ==
  /\ PvMode /\ inputs.nInstallments >= 2
  /\ 1 <= DownOffset /\ DownOffset <= inputs.nInstallments
  /\ \E i \in 1..Len(result.modelB.schedule) :
       OffsetOf(result.modelB.schedule[i]) = inputs.nInstallments + 1
  /\ \E i \in 1..Len(result.modelA.schedule) :
       result.modelA.schedule[i].date = DownMonthStr

SameSchedule(a, b) ==
  /\ Len(a) = Len(b)
  /\ \A i \in 1..Len(a) :
       /\ a[i].date = b[i].date
       /\ Close(a[i].amount, b[i].amount)

\* C7: when t <= 0 or t > n, Model B's schedule is Model A's schedule entry
\* for entry (same months, same installment amount), in both modes.
C7_SkipCollapsesToConcurrent ==
  (/\ PvMode \/ NominalMode
   /\ inputs.nInstallments >= 1
   /\ DownOffset <= 0 \/ DownOffset > inputs.nInstallments) =>
     SameSchedule(result.modelA.schedule, result.modelB.schedule)

MonthIndex(str) == str.y * 12 + (str.mo - 1)

Increasing(sched) ==
  /\ \A i \in 1..Len(sched) : sched[i].date.mo \in 1..12
  /\ \A i \in 1..(Len(sched) - 1) :
       MonthIndex(sched[i].date) < MonthIndex(sched[i + 1].date)

\* C8: every returned schedule's calendar months strictly increase, also
\* across a year boundary, and Model A's entries are exactly the n months
\* at offsets 1..n from the start month, whatever the down-payment date.
C8_SchedulesIncrease ==
  ((PvMode \/ NominalMode) /\ inputs.nInstallments >= 1) =>
     /\ Increasing(result.modelA.schedule)
     /\ Increasing(result.modelB.schedule)
     /\ Len(result.modelA.schedule) = inputs.nInstallments
     /\ \A i \in 1..Len(result.modelA.schedule) :
          MonthIndex(result.modelA.schedule[i].date)
            = inputs.startYear * 12 + (inputs.startMonth - 1) + i

C8_Witness ==
  /\ PvMode /\ inputs.nInstallments >= 3
  /\ result.modelA.schedule[1].date.y = inputs.startYear
  /\ result.modelA.schedule[inputs.nInstallments].date.y = inputs.startYear + 1
  /\ result.modelB.schedule[inputs.nInstallments].date.y = inputs.startYear + 1
  /\ 1 <= DownOffset /\ DownOffset <= inputs.nInstallments

\* A discount sum calculateNPV divides by is zero.
ZeroDiscountSum ==
  LET n == inputs.nInstallments
      r == inputs.monthlyRate
  IN  \/ geometricSumDiscount(n, r, 1, <<>>) = FZero
      \/ geometricSumDiscount(n + 1, r, 1, SkipIdx(DownOffset, n)) = FZero

\* C9: calculateNPV signals an error and returns no result when
\* nInstallments <= 0 or a discount sum it would divide by is zero, in
\* both modes.
C9_DegenerateInputRejected ==
  (/\ PvMode \/ NominalMode
   /\ inputs.nInstallments <= 0 \/ (PvMode /\ ZeroDiscountSum)) =>
     result.threw

(***************************************************************************)
(* Conversation claims                                                     *)
(***************************************************************************)
\* C1: after the scripted session from a fresh context (a greeting, a valid
\* property id, 'monthly', '2', a down payment between 1,000 and the
\* property's price, '', '', '24') the step is completed and the last turn
\* returned an NPVResult.
C1_ScriptedSessionCompletes ==
  script = Len(Script) =>
    /\ context.step = <<"completed">>
    /\ reply.npvResult # Absent

\* The number the accepted rate utterance writes.
WrittenRate == parseFloat(replaceFirst(Val(NumberMatch(utterance)), ",", "."))

\* The monthly rate, as a decimal fraction, that the accepted utterance
\* denotes: p/100 for a monthly p, (1 + a/100)^(1/12) - 1 for an annual a.
DenotedMonthlyRate ==
  IF Val(context.isAnnualRateSelected)
  THEN annualToMonthlyRate(FDiv(WrittenRate, FromInt(100)))
  ELSE FDiv(WrittenRate, FromInt(100))

RateAccepted == reply.message \in {"monthly_rate_saved", "annual_rate_saved"}

\* C10: after every accepted rate utterance the context's monthlyRate is
\* the monthly rate as a decimal fraction (0.02 for 2 %), for a bare
\* number, a percent form and an annual rate.
C10_RateStoredAsFraction ==
  RateAccepted => Close(Val(context.monthlyRate), DenotedMonthlyRate)

\* The plan calculateNPV returns for the property, down payment, dates and
\* count of state when it is given the monthly rate r.
PlanAtRate(state, r) ==
  calculateNPV([targetPv |-> Price(Val(find(Apartments, state.apartmentId))),
                targetNominal |-> Undefined,
                monthlyRate |-> r, downAmount |-> Val(state.downAmount),
                downYear |-> Val(state.downYear), downMonth |-> Val(state.downMonth),
                nInstallments |-> Val(state.nInstallments),
                startYear |-> IntOr(state.startYear, Today.year),
                startMonth |-> IntOr(state.startMonth, Today.month)])

\* The fraction the stored percent figure of an annual rate stands for.
StoredAnnualFraction == FDiv(Val(context.monthlyRate), FromInt(100))

AnnualRateInForce ==
  context.isAnnualRateSelected = <<TRUE>> /\ context.monthlyRate # Absent

\* C11: an annual rate of a percent accepted at the rate step is kept as
\* (1 + a/100)^(1/12) - 1 (in percent), and every later turn of the session
\* that returns a plan returns the plan solved at that monthly rate.
C11_AnnualRateReachesSolver ==
  /\ reply.message = "annual_rate_saved" =>
       Close(StoredAnnualFraction,
             annualToMonthlyRate(FDiv(WrittenRate, FromInt(100))))
  /\ (reply.npvResult # Absent /\ AnnualRateInForce) =>
       Close(Val(reply.npvResult).modelA.monthlyInstallment,
             PlanAtRate(context, StoredAnnualFraction).modelA.monthlyInstallment)

\* The words that name the unit of a rate.
HasRateUnitKeyword(lowerMessage) ==
  \/ includes(lowerMessage, <<"y", "i_dotless", "l", "l", "i_dotless", "k">>) \/ includes(lowerMessage, <<"y", "i", "l", "l", "i", "k">>)
  \/ includes(lowerMessage, <<"a", "n", "n", "u", "a", "l">>) \/ includes(lowerMessage, <<"y", "i_dotless", "l">>)
  \/ includes(lowerMessage, <<"y", "i", "l">>)
  \/ includes(lowerMessage, <<"a", "y", "l", "i_dotless", "k">>) \/ includes(lowerMessage, <<"a", "y", "l", "i", "k">>)
  \/ includes(lowerMessage, <<"m", "o", "n", "t", "h", "l", "y">>)

\* userMessage, said in state, is answered by the step's own handler and
\* carries a number (not a property id) and no unit keyword.
NumberWithoutUnit(userMessage, state) ==
  /\ state.step = <<"waiting_for_interest_rate">>
  /\ state.isAnnualRateSelected = Absent
  /\ Branch(userMessage, state) = "waiting_for_interest_rate"
  /\ NumberMatch(userMessage) # Null
  /\ parseApartmentId(userMessage) = Null
  /\ ~HasRateUnitKeyword(Lower(userMessage))

\* C12: at the rate step with no unit chosen, an utterance with a number and
\* no annual or monthly keyword is answered by the annual-or-monthly
\* question; no rate is stored and the step does not advance.
C12_AmbiguousRateAsksUnit ==
  [][NumberWithoutUnit(utterance', context) =>
       /\ reply'.message = "ask_rate_unit"
       /\ reply'.newState = Absent
       /\ context' = context]_vars

\* userMessage, said in state at the down-payment step, gives an amount
\* greater than the price of the selected property.
ExceedsPrice(userMessage, state) ==
  /\ state.step = <<"waiting_for_down_payment">>
  /\ Branch(userMessage, state) = "waiting_for_down_payment"
  /\ parseAmount(userMessage) # Null
  /\ find(Apartments, state.apartmentId) # Absent
  /\ FGt(Val(parseAmount(userMessage)), Price(Val(find(Apartments, state.apartmentId))))

\* C13: at the down-payment step an amount greater than the selected
\* property's price is rejected: the reply carries no plan and no updated
\* context, and the context (step and down payment included) is unchanged,
\* so the amount is not stored.
C13_ExcessDownPaymentRejected ==
  [][ExceedsPrice(utterance', context) =>
       /\ reply'.newState = Absent /\ reply'.npvResult = Absent
       /\ context' = context
       /\ context'.step = <<"waiting_for_down_payment">>
       /\ context'.downAmount # parseAmount(utterance')]_vars

C13_Witness ==
  /\ ExceedsPrice(utterance, context)
  /\ reply.newState = Absent
  /\ context.downAmount = Absent

\* C14: whenever a catalog property is selected and a down payment is
\* stored, 0 <= downAmount <= the selected property's price.
C14_DownPaymentWithinPrice ==
  (find(Apartments, context.apartmentId) # Absent /\ context.downAmount # Absent) =>
     /\ FGe(Val(context.downAmount), FZero)
     /\ FLe(Val(context.downAmount), Price(Val(find(Apartments, context.apartmentId))))

\* The session's start date as the solver calls take it.
StartMonths(state) ==
  IntOr(state.startYear, Today.year) * 12 + IntOr(state.startMonth, Today.month)

\* userMessage, said in state at the down-payment month step, names a month
\* that with the stored down-payment year lies before the start date.
CompletesPastDate(userMessage, state) ==
  /\ state.step = <<"waiting_for_down_payment_month">>
  /\ Branch(userMessage, state) = "waiting_for_down_payment_month"
  /\ parseMonth(userMessage) # Null
  /\ IntOr(state.downYear, Today.year) * 12 + Val(parseMonth(userMessage))
       < StartMonths(state)

\* state is past the down-payment date steps with a date stored.
DownDateCollected(state) ==
  /\ state.step \in {<<"waiting_for_installments">>, <<"completed">>,
                     <<"waiting_for_lower_installment">>, <<"showing_alternatives">>}
  /\ state.downYear # Absent /\ state.downMonth # Absent

\* C15: a month that completes a down-payment date before the session's
\* start date is rejected with the context unchanged, and no turn leaves the
\* engine at the installment-count step or beyond with a stored down-payment
\* date before the start date.
C15_PastDownDateRejected ==
  [][/\ CompletesPastDate(utterance', context) =>
          /\ reply'.newState = Absent /\ reply'.npvResult = Absent
          /\ context' = context
     /\ DownDateCollected(context') =>
          Val(context'.downYear) * 12 + Val(context'.downMonth) >= StartMonths(context')]_vars

C15_Witness ==
  /\ CompletesPastDate(utterance, context)
  /\ context.downYear = <<2024>>
  /\ reply.newState = Absent

\* userMessage is answered by the handler of the step the state is in.
BlankAt(step, userMessage, state) ==
  /\ state.step = <<step>>
  /\ trim(userMessage) = <<>>
  /\ Branch(userMessage, state) = step

\* C16: a blank utterance at the down-payment year, down-payment month and
\* installment-count steps stores the current year, the current month and 24
\* installments respectively and advances to the next step.
C16_BlankStoresDefault ==
  [][/\ BlankAt("waiting_for_down_payment_year", utterance', context) =>
          /\ context'.downYear = <<getCurrentDate(clock).year>>
          /\ context'.step = <<"waiting_for_down_payment_month">>
     /\ BlankAt("waiting_for_down_payment_month", utterance', context) =>
          /\ context'.downMonth = <<getCurrentDate(clock).month>>
          /\ context'.step = <<"waiting_for_installments">>
     /\ BlankAt("waiting_for_installments", utterance', context) =>
          /\ context'.nInstallments = <<24>>
          /\ context'.step = <<"completed">>]_vars

\* The step changes the two chains, the restart and the new-property restart
\* allow.
StepChain ==
  { <<"waiting_for_apartment", "waiting_for_interest_rate">>,
    <<"waiting_for_interest_rate", "waiting_for_down_payment">>,
    <<"waiting_for_down_payment", "waiting_for_down_payment_year">>,
    <<"waiting_for_down_payment_year", "waiting_for_down_payment_month">>,
    <<"waiting_for_down_payment_month", "waiting_for_installments">>,
    <<"waiting_for_installments", "completed">>,
    <<"completed", "waiting_for_lower_installment">>,
    <<"waiting_for_lower_installment", "showing_alternatives">>,
    <<"showing_alternatives", "completed">>,
    <<"completed", "waiting_for_interest_rate">> }

StepChangeAllowed(from, to) ==
  \/ to = from
  \/ to = <<"waiting_for_apartment">>
  \/ from # Absent /\ to # Absent /\ <<Val(from), Val(to)>> \in StepChain

\* C17: across a turn the step stays, moves to the next step of the
\* collection chain or of the negotiation chain, restarts at the property
\* step, or restarts at the rate step from completed; no step is skipped and
\* none moves backwards.
C17_StepsFollowChains ==
  [][StepChangeAllowed(context.step, context'.step)]_vars

\* userMessage, said in state at the installment-count step, is an accepted
\* count (a number, or blank for 24) with everything the solve needs stored.
CountAccepted(userMessage, state) ==
  /\ state.step = <<"waiting_for_installments">>
  /\ Branch(userMessage, state) = "waiting_for_installments"
  /\ parseInstallments(userMessage) # Null \/ trim(userMessage) = <<>>
  /\ ReadyToSolve(state, Apartments)

AcceptedCount(userMessage) ==
  IF parseInstallments(userMessage) # Null THEN Val(parseInstallments(userMessage)) ELSE 24

\* The target-present-value solve against the selected property's price.
PriceSolve(userMessage, state) ==
  PlanAtRate([state EXCEPT !.nInstallments = <<AcceptedCount(userMessage)>>],
             RateDecimal(Val(state.monthlyRate)))

\* Either model's installment, or either model's nominal total minus price,
\* is negative.
PlanFailsValidation(plan, price) ==
  \/ FLt(plan.modelA.monthlyInstallment, FZero)
  \/ FLt(plan.modelB.monthlyInstallment, FZero)
  \/ FLt(FSub(plan.modelA.nominalTotal, price), FZero)
  \/ FLt(FSub(plan.modelB.nominalTotal, price), FZero)

InstallmentTurnSettled(plan, price, count, before, after, response) ==
  IF PlanFailsValidation(plan, price)
  THEN /\ after = before
       /\ response.newState = Absent /\ response.npvResult = Absent
       /\ after.step = <<"waiting_for_installments">>
  ELSE /\ response.npvResult = <<plan>>
       /\ after.lastNpvResult = <<plan>>
       /\ after.nInstallments = <<count>>
       /\ after.step = <<"completed">>

SelectedPrice(state) == Price(Val(find(Apartments, state.apartmentId)))

\* C18: an accepted installment count is solved in target-present-value mode
\* against the selected property's price; a negative installment or a
\* negative nominal total minus price in either model leaves the context
\* unchanged at the installment-count step, and otherwise the plan is
\* returned, stored as the last result, and the step becomes completed.
C18_InstallmentCountSettled ==
  [][(CountAccepted(utterance', context) /\ ~PriceSolve(utterance', context).threw) =>
       InstallmentTurnSettled(PriceSolve(utterance', context), SelectedPrice(context),
                              AcceptedCount(utterance'), context, context', reply')]_vars

C18_Witness ==
  /\ CountAccepted(utterance, context)
  /\ ~PriceSolve(utterance, context).threw
  /\ PlanFailsValidation(PriceSolve(utterance, context), SelectedPrice(context))
  /\ reply.newState = Absent

\* C19: a greeting or restart utterance returns a context at the property
\* step whose start date is the current date and whose every other field is
\* absent.
C19_GreetingClearsContext ==
  [][Branch(utterance', context) = "greeting" =>
       /\ reply'.newState # Absent
       /\ context' = [EmptyState EXCEPT !.step = <<"waiting_for_apartment">>,
                                        !.startYear = <<getCurrentDate(clock).year>>,
                                        !.startMonth = <<getCurrentDate(clock).month>>]]_vars

\* userMessage has a help keyword and no greeting keyword, and state has a step.
PlainHelp(userMessage, state) ==
  /\ state.step # Absent
  /\ IsHelp(Lower(userMessage))
  /\ ~IsGreeting(Lower(userMessage), state)

\* C20: with a step set, an utterance with a help keyword and no greeting
\* keyword gets the informational reply with no plan and no updated context,
\* and the step and every parameter of the context are unchanged.
C20_HelpLeavesContext ==
  [][PlainHelp(utterance', context) =>
       /\ reply'.message = "help"
       /\ reply'.newState = Absent /\ reply'.npvResult = Absent
       /\ context' = context]_vars

C20_Witness ==
  /\ PlainHelp(utterance, context)
  /\ context.step = <<"completed">>
  /\ context.lastNpvResult # Absent
  /\ reply.newState = Absent

\* The steps between the selection of the property and the solve.
MidCollectionSteps ==
  { "waiting_for_interest_rate", "waiting_for_down_payment",
    "waiting_for_down_payment_year", "waiting_for_down_payment_month",
    "waiting_for_installments" }

\* userMessage, said in state, carries a property identifier and is answered
\* by the handler of a mid-collection step.
IdMidCollection(userMessage, state) ==
  /\ state.step # Absent /\ Val(state.step) \in MidCollectionSteps
  /\ Branch(userMessage, state) = Val(state.step)
  /\ parseApartmentId(userMessage) # Null

\* C21: in every mid-collection step an utterance with a property
\* identifier only restates the question: the reply carries no updated
\* context and no plan, and the context is unchanged, so no slot is filled
\* from the identifier's digits.
C21_IdMidCollectionRestates ==
  [][IdMidCollection(utterance', context) =>
       /\ reply'.newState = Absent /\ reply'.npvResult = Absent
       /\ context' = context]_vars

\* userMessage, said in state at completed or in a negotiation step, is
\* answered by that step's handler and carries a catalog property's id.
NewPropertyChosen(userMessage, state) ==
  /\ state.step \in {<<"completed">>, <<"waiting_for_lower_installment">>,
                     <<"showing_alternatives">>}
  /\ Branch(userMessage, state) = Val(state.step)
  /\ find(Apartments, parseApartmentId(userMessage)) # Absent

\* The context of a restart at the rate step with the property evId.
RestartedWith(evId, state) ==
  [EmptyState EXCEPT !.apartmentId = evId,
                     !.step = <<"waiting_for_interest_rate">>,
                     !.startYear = state.startYear,
                     !.startMonth = state.startMonth]

\* C22: at completed and in both negotiation steps an utterance with a
\* catalog property's id selects that property, clears the rate, the unit
\* choice, the down payment and its date, the installment count, the last
\* result and the negotiation fields, and sets the step to the rate step.
C22_NewPropertyRestarts ==
  [][NewPropertyChosen(utterance', context) =>
       context' = RestartedWith(parseApartmentId(utterance'), context)]_vars

\* userMessage is a number and nothing else.
IsPlainNumber(userMessage) ==
  /\ trim(userMessage) # <<>>
  /\ \A i \in 1..Len(trim(userMessage)) : IsDigit(trim(userMessage)[i])

\* What the matcher returns for the desired installment amount with the
\* parameters of state.
MatcherFor(state, amount) ==
  findAlternativeApartments(Apartments, amount, Val(state.downAmount),
                            Val(state.nInstallments), Val(state.monthlyRate),
                            Val(state.downYear), Val(state.downMonth),
                            IntOr(state.startYear, Today.year),
                            IntOr(state.startMonth, Today.month),
                            Val(state.apartmentId), Tolerance)

\* userMessage, said in state at the lower-installment step, is a number.
DesiredAmountGiven(userMessage, state) ==
  /\ state.step = <<"waiting_for_lower_installment">>
  /\ Branch(userMessage, state) = "waiting_for_lower_installment"
  /\ IsPlainNumber(userMessage)
  /\ parseAmount(userMessage) # Null
  /\ find(Apartments, state.apartmentId) # Absent

LowerInstallmentAsked(userMessage, state) ==
  /\ state.step = <<"completed">> /\ state.lastNpvResult # Absent
  /\ Branch(userMessage, state) = "lower_installment_request"

\* C23: from completed with a stored result a lower-installment phrase
\* moves to the lower-installment step and changes nothing else; there a
\* number for which the matcher returns at least one candidate stores the
\* desired installment and the matcher's list and moves to
\* showing_alternatives.
C23_NegotiationOpens ==
  [][/\ LowerInstallmentAsked(utterance', context) =>
          context' = [context EXCEPT !.step = <<"waiting_for_lower_installment">>]
     /\ (/\ DesiredAmountGiven(utterance', context)
         /\ Len(MatcherFor(context, Val(parseAmount(utterance')))) > 0) =>
          /\ context'.step = <<"showing_alternatives">>
          /\ context'.desiredInstallment = parseAmount(utterance')
          /\ context'.alternativeApartments =
               <<MatcherFor(context, Val(parseAmount(utterance')))>>]_vars

C23_Witness ==
  /\ context.step = <<"showing_alternatives">>
  /\ IsPlainNumber(utterance)
  /\ context.desiredInstallment = parseAmount(utterance)
  /\ context.alternativeApartments # Absent
  /\ Len(Val(context.alternativeApartments)) > 0

\* C24: at the lower-installment step a number for which the matcher
\* returns no candidate leaves the state as it is: the step remains the
\* lower-installment step.
C24_NoCandidateKeepsState ==
  [][(/\ DesiredAmountGiven(utterance', context)
      /\ Len(MatcherFor(context, Val(parseAmount(utterance')))) = 0) =>
       /\ context'.step = <<"waiting_for_lower_installment">>
       /\ context' = context]_vars

\* userMessage, said in state at showing_alternatives, is a list number or a
\* property identifier.
ChoiceGiven(userMessage, state) ==
  /\ state.step = <<"showing_alternatives">>
  /\ Branch(userMessage, state) = "showing_alternatives"
  /\ ListNumberMatch(userMessage) # Null \/ IsEvId(userMessage)

\* The i-th cached candidate for the list number i, the catalog property for
\* an identifier, Absent when neither resolves.
ChosenApartment(userMessage, state) ==
  IF ListNumberMatch(userMessage) # Null
  THEN IF /\ state.alternativeApartments # Absent
          /\ parseInt(Val(ListNumberMatch(userMessage)))
               \in 1..Len(Val(state.alternativeApartments))
       THEN <<Val(state.alternativeApartments)[parseInt(Val(ListNumberMatch(userMessage)))]>>
       ELSE Absent
  ELSE find(Apartments, parseApartmentId(userMessage))

ChoiceSettled(chosen, plan, before, after, response) ==
  /\ response.npvResult = <<plan>>
  /\ after = [before EXCEPT !.apartmentId = <<chosen.ev_id>>,
                            !.step = <<"completed">>,
                            !.lastNpvResult = <<plan>>,
                            !.alternativeApartments = after.alternativeApartments]

\* The target-present-value plan for the chosen property with the rate,
\* down payment, date and count of state.
PlanForChoice(chosen, state) ==
  PlanAtRate([state EXCEPT !.apartmentId = <<chosen.ev_id>>],
             RateDecimal(Val(state.monthlyRate)))

PlanRefused(plan) ==
  \/ FLt(plan.modelA.monthlyInstallment, FZero)
  \/ FLt(plan.modelB.monthlyInstallment, FZero)
  \/ FLt(FSub(plan.modelA.nominalTotal, plan.modelA.presentValue), FZero)
  \/ FLt(FSub(plan.modelB.nominalTotal, plan.modelB.presentValue), FZero)

ChoiceSettledOrRefused(chosen, plan, before, after, response) ==
  IF PlanRefused(plan)
  THEN after = before /\ response.newState = Absent /\ response.npvResult = Absent
  ELSE ChoiceSettled(chosen, plan, before, after, response)

AsksToRaiseDownPayment(lowerMessage) ==
  /\ includes(lowerMessage, <<"p", "e", "s_cedilla", "i", "n", "a", "t">>)
  /\ \/ includes(lowerMessage, <<"y", "u_diaeresis", "k", "s", "e", "l", "t">>) \/ includes(lowerMessage, <<"a", "r", "t", "i_dotless", "r">>)
     \/ includes(lowerMessage, <<"n", "e", " ", "k", "a", "d", "a", "r">>)

IsAffirmative(lowerMessage) ==
  \/ includes(lowerMessage, <<"e", "v", "e", "t">>) \/ includes(lowerMessage, <<"k", "a", "b", "u", "l">>)
  \/ includes(lowerMessage, <<"t", "a", "m", "a", "m">>) \/ lowerMessage = <<"e">>

InNegotiation(userMessage, state) ==
  /\ state.step \in {<<"waiting_for_lower_installment">>, <<"showing_alternatives">>}
  /\ Branch(userMessage, state) = Val(state.step)
  /\ find(Apartments, state.apartmentId) # Absent

\* userMessage, said in state in a negotiation step with a desired
\* installment stored, is a raise-the-down-payment request and neither an
\* acceptance nor a longer-term question.
RaiseRequested(userMessage, state) ==
  /\ InNegotiation(userMessage, state)
  /\ state.desiredInstallment # Absent
  /\ AsksToRaiseDownPayment(Lower(userMessage))
  /\ ~IsAffirmative(Lower(userMessage))
  /\ AyMatch(userMessage) = Null

\* The down payment current + k * 50,000.
RaisedDown(state, k) == FAdd(Val(state.downAmount), FromInt(k * 50000))

\* The k for which current + k * 50,000 is at most half the price and the
\* Model A installment lies within 5,000 of the desired installment.
QualifyingRaises(state) ==
  {k \in 1..((Val(find(Apartments, state.apartmentId)).bugunku_pesin_fiyat \div 100000) + 1) :
     /\ FLe(RaisedDown(state, k), FMul(SelectedPrice(state), Dec(5, 10)))
     /\ Feasible(PlanAtRate([state EXCEPT !.downAmount = <<RaisedDown(state, k)>>],
                            RateDecimal(Val(state.monthlyRate))).modelA.monthlyInstallment,
                 Val(state.desiredInstallment))}

RaiseSettled(K, before, after, response) ==
  /\ response.npvResult = Absent
  /\ IF K # {}
     THEN after = [before EXCEPT !.suggestedDownAmount = <<RaisedDown(before, SetMin(K))>>]
     ELSE after = before /\ response.newState = Absent

\* C26: a raise-the-down-payment request in a negotiation step tries the
\* down payments current + k * 50,000 (k = 1, 2, ...) up to half the price
\* and proposes the smallest whose Model A installment is within 5,000 of
\* the desired installment; the proposal is stored as the pending suggestion
\* only (step, down payment and last result unchanged), and when none
\* qualifies the context is unchanged.
C26_RaiseProposesSmallest ==
  [][RaiseRequested(utterance', context) =>
       RaiseSettled(QualifyingRaises(context), context, context', reply')]_vars

C26_Witness ==
  /\ RaiseRequested(utterance, context)
  /\ context.suggestedDownAmount # Absent
  /\ FGt(Val(context.suggestedDownAmount), RaisedDown(context, 1))
  /\ reply.newState # Absent

\* userMessage, said in state in a negotiation step, is an affirmative reply.
AffirmativeGiven(userMessage, state) ==
  /\ InNegotiation(userMessage, state)
  /\ IsAffirmative(Lower(userMessage))

\* The target-present-value plan of the selected property with the
\* suggested down payment.
PlanWithSuggestion(state) ==
  PlanAtRate([state EXCEPT !.downAmount = state.suggestedDownAmount],
             RateDecimal(Val(state.monthlyRate)))

SuggestionCommitted(plan, before, after, response) ==
  /\ response.npvResult = <<plan>>
  /\ after = [before EXCEPT !.downAmount = before.suggestedDownAmount,
                            !.step = <<"completed">>,
                            !.lastNpvResult = <<plan>>,
                            !.suggestedDownAmount = Absent]

\* C27: in a negotiation step with a suggested down payment pending, an
\* affirmative reply makes the suggestion the down payment, solves the
\* selected property's plan with it in target-present-value mode, returns
\* and stores the plan, clears the suggestion and moves to completed; with
\* no suggestion pending an affirmative reply leaves the context unchanged.
C27_AffirmativeCommitsSuggestion ==
  [][AffirmativeGiven(utterance', context) =>
       IF context.suggestedDownAmount # Absent
       THEN SuggestionCommitted(PlanWithSuggestion(context), context, context', reply')
       ELSE context' = context /\ reply'.npvResult = Absent]_vars

(***************************************************************************)
(* Claims about the search loop and the matcher                            *)
(***************************************************************************)
\* C28: the down-payment search loop ends for every context and price, also
\* when the down payment is already above half the price (no iteration) and
\* when no down payment qualifies, so the turn returns.  The prices are those
\* of a catalog, far below the magnitude at which adding 50,000 to a number
\* no longer changes it.
C28_SearchTerminates == <>(search.pc = "done")

\* The loop has run more than once and ended at the ceiling with nothing found.
C28_Witness ==
  /\ search.pc = "done"
  /\ ~search.foundFeasible
  /\ FGt(search.suggestedDownAmount, FAdd(Val(context.downAmount), FromInt(100000)))

\* C29: whatever the catalog, the desired installment and the tolerance, the
\* matcher's result leaves out the currently selected property, has at most
\* 5 entries, and each entry's recomputed Model A installment is above zero
\* and within the tolerance of the desired amount; the result is empty when
\* the current property is not in the catalog.
C29_MatcherResultBounded ==
  match.called =>
    /\ \A i \in 1..Len(match.alternatives) :
         /\ match.alternatives[i].ev_id # match.currentApartmentId
         /\ WithinTolerance(CandidateIn(match, match.alternatives[i]),
                            match.desiredInstallment, match.installmentTolerance)
    /\ Len(match.alternatives) <= 5
    /\ (find(match.apartments, <<match.currentApartmentId>>) = Absent
          => match.alternatives = <<>>)

\* A call on a catalog with more than five matching properties.
C29_Witness ==
  /\ match.called
  /\ Len(match.alternatives) = 5
  /\ Len(MatchingIn(match)) > 5

\* The distance of a returned apartment's installment from the desired amount.
DistanceIn(args, apt) ==
  FAbs(FSub(CandidateIn(args, apt).calculatedInstallment, args.desiredInstallment))

\* first is rightly ahead of second: the closer one when the distances
\* differ by at least 1,000, otherwise the one with the longer delivery.
RankedAhead(args, first, second) ==
  IF FGe(FAbs(FSub(DistanceIn(args, first), DistanceIn(args, second))), FromInt(1000))
  THEN FLt(DistanceIn(args, first), DistanceIn(args, second))
  ELSE parseDeliveryTime(first.teslim_suresi) >= parseDeliveryTime(second.teslim_suresi)

RankedAsStated(args, alternatives) ==
  \A i, j \in 1..Len(alternatives) :
    i < j => RankedAhead(args, alternatives[i], alternatives[j])

\* C30: in the returned list, of two entries whose distances from the desired
\* amount differ by at least 1,000 the closer one comes first, and of two
\* entries whose distances differ by less than 1,000 the one with the longer
\* parsed delivery duration comes first; the comparison is a consistent
\* (transitive) order on the matching candidates.
C30_RankingIsConsistentOrder ==
  match.called =>
    /\ RankedAsStated(match, match.alternatives)
    /\ (find(match.apartments, <<match.currentApartmentId>>) # Absent
          => ConsistentComparator(Range(MatchingIn(match)), match.desiredInstallment))

(***************************************************************************)
(* Claims about the engine as a whole                                      *)
(***************************************************************************)
\* The days on which the same call may be made.
CallDates == {Today, [year |-> Today.year + 1, month |-> 2]}

\* C31: generateBotResponse is a function of the utterance, the context and
\* the catalog only: the call of a turn returns the same reply, result and
\* updated context on whatever day it is made.
C31_TurnDependsOnArgumentsOnly ==
  [][\A date \in CallDates :
       generateBotResponse(utterance', context, catalog, date) = reply']_vars

\* userMessage names a property id that is not in the catalog.
UnknownIdNamed(userMessage) ==
  /\ parseApartmentId(userMessage) # Null
  /\ find(Apartments, parseApartmentId(userMessage)) = Absent

\* userMessage is one of the requests a negotiation step answers besides
\* its own slot: an acceptance, a longer term, a higher down payment.
NegotiationRequest(userMessage) ==
  \/ IsAffirmative(Lower(userMessage))
  \/ RequestedInstallments(userMessage, Lower(userMessage)) # Null
  \/ AsksToRaiseDownPayment(Lower(userMessage))

\* userMessage gives no value for the slot of the step.
NoSlotValue(userMessage, step) ==
  CASE step = "waiting_for_apartment" -> parseApartmentId(userMessage) = Null
    [] step = "waiting_for_interest_rate" ->
         NumberMatch(userMessage) = Null /\ ~HasRateUnitKeyword(Lower(userMessage))
    [] step = "waiting_for_down_payment" -> parseAmount(userMessage) = Null
    [] step = "waiting_for_down_payment_year" ->
         parseYear(userMessage) = Null /\ trim(userMessage) # <<>>
    [] step = "waiting_for_down_payment_month" -> parseMonth(userMessage) = Null
    [] step = "waiting_for_installments" ->
         parseInstallments(userMessage) = Null /\ trim(userMessage) # <<>>
    [] step = "waiting_for_lower_installment" ->
         parseAmount(userMessage) = Null /\ ~NegotiationRequest(userMessage)
    [] step = "showing_alternatives" ->
         /\ ListNumberMatch(userMessage) = Null /\ parseApartmentId(userMessage) = Null
         /\ ~NegotiationRequest(userMessage)
    [] OTHER -> FALSE

\* userMessage, said in state, is answered by the step's handler and either
\* gives no value for the step's slot or names an unknown property.
InvalidInput(userMessage, state) ==
  /\ state.step # Absent
  /\ Branch(userMessage, state) = Val(state.step)
  /\ NoSlotValue(userMessage, Val(state.step)) \/ UnknownIdNamed(userMessage)

\* C32: in every state an utterance that cannot be parsed as a value for
\* the active slot, or that names a property id not in the catalog, gets a
\* reply with no updated context and no plan: the step and every parameter
\* keep their values.
C32_InvalidInputKeepsContext ==
  [][InvalidInput(utterance', context) =>
       /\ reply'.newState = Absent /\ reply'.npvResult = Absent
       /\ context' = context]_vars

\* The six steps that collect a parameter of the plan.
CollectionSteps ==
  { "waiting_for_apartment", "waiting_for_interest_rate", "waiting_for_down_payment",
    "waiting_for_down_payment_year", "waiting_for_down_payment_month",
    "waiting_for_installments" }

\* Values a user may retry a collection step with, none of them a greeting or
\* a restart: every catalog id, every month of the year, and usual rates,
\* amounts, years and terms.
RetryValues(step) ==
  CASE step = <<"waiting_for_apartment">> ->
         { <<"G", "Z", "P", "-", "H", "0", "4", "-", "0", "0", "1">>, <<"G", "Z", "P", "-", "H", "1", "2", "-", "0", "0", "4">>, <<"G", "Z", "P", "-", "H", "0", "7", "-", "0", "0", "2">> }
    [] step = <<"waiting_for_interest_rate">> -> { <<"2">>, <<"m", "o", "n", "t", "h", "l", "y">>, <<"a", "n", "n", "u", "a", "l">>, <<"%", "1">> }
    [] step = <<"waiting_for_down_payment">> -> { <<"2", "8", "0", "0", "0", "0">>, <<"1", "0", "0", "0", "0", "0">>, <<"5", "0", "0", "0", "0", "0">> }
    [] step = <<"waiting_for_down_payment_year">> -> { <<>>, <<"2", "0", "2", "5">>, <<"2", "0", "2", "6">>, <<"2", "0", "2", "7">> }
    [] step = <<"waiting_for_down_payment_month">> ->
         { <<>>, <<"1">>, <<"2">>, <<"3">>, <<"4">>, <<"5">>, <<"6">>, <<"7">>, <<"8">>, <<"9">>, <<"1", "0">>, <<"1", "1">>, <<"1", "2">>,
           <<"O", "c", "a", "k">>, <<"A", "r", "a", "l", "i_dotless", "k">> }
    [] step = <<"waiting_for_installments">> -> { <<>>, <<"1", "2">>, <<"2", "4">>, <<"3", "6">>, <<"1", "2", "0">> }
    [] OTHER -> {}

\* The turn for userMessage leaves the step of state.
LeavesStep(userMessage, state, date) ==
  LET response == generateBotResponse(userMessage, state, Apartments, date)
  IN  /\ response.newState # Absent
      /\ Val(response.newState).step # state.step

\* C33: no reachable context is a dead end: whenever a turn has rejected a
\* value at a collection step (no updated context was returned and the step
\* is still that collection step), some retry value that is neither a greeting
\* nor a restart is accepted at that step and moves the conversation on.
C33_RejectedStepCanBeRetried ==
  ( /\ context.step # Absent
    /\ Val(context.step) \in CollectionSteps
    /\ reply.message # ""
    /\ reply.newState = Absent )
  => \E userMessage \in RetryValues(context.step) :
         LeavesStep(userMessage, context, clock)

\* The Model A installment the down-payment search computes for the selected
\* property of state with the pending suggestion as the down payment.
InstallmentWithSuggestion(state, date) ==
  SolveTargetPvFor(SelectedPrice(state), RateDecimalOrDefault(state.monthlyRate),
                   Val(state.suggestedDownAmount),
                   Val(state.downYear), Val(state.downMonth),
                   IntOr(state.nInstallments, 24), state, date).modelA.monthlyInstallment

\* The pending suggestion of state is one the search makes for the selected
\* property, desired installment and term of state.
SuggestionIsCurrent(state, date) ==
  /\ find(Apartments, state.apartmentId) # Absent
  /\ state.desiredInstallment # Absent
  /\ state.downYear # Absent /\ state.downMonth # Absent
  /\ FLe(Val(state.suggestedDownAmount), FMul(SelectedPrice(state), Dec(5, 10)))
  /\ Feasible(InstallmentWithSuggestion(state, date), Val(state.desiredInstallment))

\* C36: a pending suggested down payment always belongs to the currently
\* selected property, desired installment and term: it is at most half of
\* the selected property's price, and the plan with it as the down payment
\* has a Model A installment within 5,000 of the desired installment, so a
\* commit gives such a plan.
C36_PendingSuggestionIsCurrent ==
  context.suggestedDownAmount # Absent => SuggestionIsCurrent(context, clock)

\* What findAlternativeApartments returns for the desired installment,
\* selected property, down payment, date and term that state holds.
CurrentMatcherResult(state, date) ==
  findAlternativeApartments(Apartments, Val(state.desiredInstallment),
                            Val(state.downAmount), Val(state.nInstallments),
                            FMul(RateDecimalOrDefault(state.monthlyRate), FromInt(100)),
                            Val(state.downYear), Val(state.downMonth),
                            IntOr(state.startYear, date.year),
                            IntOr(state.startMonth, date.month),
                            Val(state.apartmentId), Tolerance)

\* The list an ordinal selects from: state.alternativeApartments, empty when
\* none is stored.
CachedAlternatives(state) ==
  IF state.alternativeApartments = Absent THEN <<>> ELSE Val(state.alternativeApartments)

\* C37: whenever the step is showing_alternatives, the cached alternative
\* list is exactly the matcher's result for the desired installment, selected
\* property, down payment and term the context holds, so that an ordinal never
\* selects from the list of an earlier negotiation round.
C37_CachedListIsCurrent ==
  context.step = <<"showing_alternatives">> =>
    /\ context.desiredInstallment # Absent
    /\ context.apartmentId # Absent
    /\ CachedAlternatives(context) = CurrentMatcherResult(context, clock)

\* The turn for userMessage in state, at showing_alternatives, selected a
\* property: the selection block answered with the re-solved plan.
PropertySelected(userMessage, state, response) ==
  /\ state.step = <<"showing_alternatives">>
  /\ Branch(userMessage, state) = "showing_alternatives"
  /\ response.message = "alternative_selected"

\* C38: in showing_alternatives the property that becomes selected is always
\* a member of the cached alternative list; the identifier of a catalog
\* property that was not listed, the currently selected one included, is not
\* accepted.
C38_SelectionIsFromCachedList ==
  [][PropertySelected(utterance', context, reply') =>
       \E i \in 1..Len(CachedAlternatives(context)) :
          context'.apartmentId = <<CachedAlternatives(context)[i].ev_id>>]_vars

\* The target-present-value plan of the selected property's price with the
\* rate, down payment, down-payment date, count and start date of state.
PlanOfContext(state, date) ==
  SolveTargetPvFor(SelectedPrice(state), RateDecimalOrDefault(state.monthlyRate),
                   Val(state.downAmount), Val(state.downYear), Val(state.downMonth),
                   Val(state.nInstallments), state, date)

\* C40: whenever the step is completed, a last result is stored and it is the
\* target-present-value solution for the selected property's price with the
\* rate, down payment, down-payment date, installment count and start date
\* the context holds.
C40_CompletedHoldsCurrentPlan ==
  context.step = <<"completed">> =>
    /\ context.lastNpvResult # Absent
    /\ find(Apartments, context.apartmentId) # Absent
    /\ context.downAmount # Absent /\ context.nInstallments # Absent
    /\ context.downYear # Absent /\ context.downMonth # Absent
    /\ context.lastNpvResult = <<PlanOfContext(context, clock)>>

\* A suggested down payment has just been committed: the plan stored at
\* completed is the one for the new down payment.
C40_Witness ==
  /\ context.step = <<"completed">>
  /\ reply.message = "down_payment_updated"
  /\ context.lastNpvResult = <<PlanOfContext(context, clock)>>
  /\ context.desiredInstallment # Absent

(***************************************************************************)
(* Claims checked on the session with the second catalog                   *)
(***************************************************************************)
\* monthlyRateDecimal of the negotiation turns: the session's decimal rate.
SessionRate(state) == RateDecimalOrDefault(state.monthlyRate)

\* The installment findAlternativeApartments computes for apt when the
\* desired-installment turn calls it from state.
MatcherInstallment(apt, state, date) ==
  MatcherCandidate(apt, Val(state.downAmount), Val(state.nInstallments),
                   FMul(SessionRate(state), FromInt(100)),
                   Val(state.downYear), Val(state.downMonth),
                   IntOr(state.startYear, date.year),
                   IntOr(state.startMonth, date.month)).calculatedInstallment

\* The Model A installment of apt's price at the session's decimal rate with
\* the down payment, date and term of state: what the turn lists for apt and
\* what a selection of apt produces.
SessionInstallment(apt, state, date) ==
  SolveTargetPvFor(Price(apt), SessionRate(state), Val(state.downAmount),
                   Val(state.downYear), Val(state.downMonth),
                   Val(state.nInstallments), state, date).modelA.monthlyInstallment

\* The turn ran the matcher: it answered with a list or with none found.
MatcherRan(state, response) ==
  /\ state.step = <<"waiting_for_lower_installment">>
  /\ response.message \in {"alternatives_listed", "no_alternative_found"}

\* C34: for every candidate property (every property but the selected one)
\* the installment the matcher computes to admit it is the Model A
\* installment of that property's price at the session's decimal monthly
\* rate, down payment, down-payment date and term, also for monthly rates of
\* 1% or less.
C34_MatcherUsesSessionRate ==
  [][MatcherRan(context, reply') =>
       \A i \in 1..Len(catalog) :
          catalog[i].ev_id # Val(context.apartmentId) =>
            MatcherInstallment(catalog[i], context, clock)
              = SessionInstallment(catalog[i], context, clock)]_vars

\* userMessage is a number and nothing else.
BareNumber(userMessage) ==
  /\ userMessage # <<>>
  /\ \A i \in 1..Len(userMessage) : IsDigit(userMessage[i]) \/ userMessage[i] = "."

\* userMessage, said in state at the rate step after the monthly unit was
\* chosen, is a bare number p with 0 < p < 1000.
BareMonthlyRateGiven(userMessage, state) ==
  /\ state.step = <<"waiting_for_interest_rate">>
  /\ Branch(userMessage, state) = "waiting_for_interest_rate"
  /\ state.isAnnualRateSelected = <<FALSE>>
  /\ BareNumber(userMessage)
  /\ RateInRange(parseFloat(userMessage))

\* The monthlyRate the solver calls of the session are given when state
\* holds the rate: at the installment-count step, in the negotiation turns
\* and inside the matcher.
RatesGivenToSolver(state) ==
  { RateDecimal(Val(state.monthlyRate)),
    SessionRate(state),
    RateDecimal(FMul(SessionRate(state), FromInt(100))) }

\* C35: a monthly rate accepted as a bare percent number p, 0 < p < 1000, is
\* given to every solver call of the session as p/100, also when p <= 1; the
\* unit of the stored rate is never guessed again from its magnitude.
C35_BarePercentReachesSolver ==
  [][BareMonthlyRateGiven(utterance', context) =>
       /\ context'.monthlyRate # Absent
       /\ \A r \in RatesGivenToSolver(context') :
             Close(r, FDiv(parseFloat(utterance'), FromInt(100)))]_vars

\* The plan stored in state passes the checks of the installment-count step
\* for the selected property of the catalog apartments.
StoredResultValid(state, apartments) ==
  LET npvResult == Val(state.lastNpvResult)
  IN  /\ find(apartments, state.apartmentId) # Absent
      /\ FGe(npvResult.modelA.monthlyInstallment, FZero)
      /\ FGe(npvResult.modelB.monthlyInstallment, FZero)
      /\ FGe(npvResult.modelA.nominalTotal,
             Price(Val(find(apartments, state.apartmentId))))
      /\ FGe(npvResult.modelB.nominalTotal,
             Price(Val(find(apartments, state.apartmentId))))

\* C39: in every reachable context the stored last result has a non-negative
\* installment in both models and a nominal total not below the selected
\* property's price, whichever turn stored it: the installment-count step, a
\* selection, a longer term or a committed down payment.
C39_StoredResultIsValid ==
  context.lastNpvResult # Absent => StoredResultValid(context, catalog)

==========================================================================
